---------------------------- MODULE Spec2Model ----------------------------
(***************************************************************************)
(* Treasury-futures calendar-spread engine: CTD selection (cf_ctd.py),     *)
(* pair generation (ctd_fut_kpis.py) and ranking / sizing / lot reduction  *)
(* (KPIs2_Orders.py).                                                      *)
(*                                                                         *)
(* Numbers.  The program computes in binary floating point.  The model     *)
(* computes exactly: prices, costs, DV01s, net bases and limits are        *)
(* integers in the unit of the table they come from, and every quotient    *)
(* the code forms (the DV01 ratio, an IRR, an implied repo rate) is kept   *)
(* as a fraction and compared by cross-multiplication.                     *)
(***************************************************************************)
EXTENDS Integers, Sequences, FiniteSets, TLC

VARIABLES
    pc,             \* position of the run inside the specification at hand
    row,            \* sizing: the hedge-pair row handed to the optimiser
    limit,          \* sizing: the notional limit handed to the optimiser
    qty,            \* sizing: the Series returned (A_Q_Value, B_Q_Value)
    hedges_df,      \* CTD stage: the HEDGES rows, one per futures quote
    usts,           \* CTD stage: the deliverable-bond universe
    removed,        \* CTD stage: conids taken out of the universe so far
    HEDGES,         \* pair stage: the HEDGES rows with their CTD and KPIs
    HEDGES_Combos,  \* pair stage: the table of (front, back) combinations
    ORDERS,         \* pair stage: the candidates emitted (config.ORDERS)
    val_call,       \* valuation: the arguments of the call at hand
    val_ret,        \* valuation: what the call gave back (value, None, raise)
    updated_ORDERS, \* risk: config.updated_ORDERS, the orders with risk columns
    submitted,      \* loop: the argument orderRequest was called with
    first_run,      \* rerun: limit and ORDERS of the first of two runs
    USTs,           \* refresh: the shared table config.USTs
    FUTURES,        \* refresh: the shared table config.FUTURES
    market_data,    \* refresh: what get_market_data collected
    ust_updated,    \* refresh: the frame the refresh holds as USTs
    fut_updated,    \* refresh: the frame the refresh holds as FUTURES
    now,            \* bucket: time.time(), in ticks
    tokens,         \* bucket: LeakyBucket.tokens
    last_checked,   \* bucket: LeakyBucket.last_checked, in ticks
    lock,           \* bucket: the thread holding LeakyBucket.lock, or 0
    thread,         \* bucket: each thread's position inside acquire()
    granted,        \* bucket: acquire() calls that gave True, per recent tick
    active_count,   \* slot: what the last poll of wait_for_slot reported
    wake_at,        \* slot: the tick at which the current sleep ends
    placed_csv,     \* orders: the rows of placed_orders_runtime.csv
    endpoint,       \* orders: the orders the account endpoint reports
    posted,         \* orders: the order requests sent (POST)
    cancelled,      \* orders: the cancel requests sent (DELETE), in order
    placed_orders_runtime  \* orders: the table of that name in orders.py

vars == <<pc, row, limit, qty, hedges_df, usts, removed,
          HEDGES, HEDGES_Combos, ORDERS, val_call, val_ret,
          updated_ORDERS, submitted, first_run,
          USTs, FUTURES, market_data, ust_updated, fut_updated,
          now, tokens, last_checked, lock, thread, granted,
          active_count, wake_at,
          placed_csv, endpoint, posted, cancelled, placed_orders_runtime>>
sizingVars == <<row, limit, qty>>
ctdVars == <<hedges_df, usts, removed>>
pairVars == <<HEDGES, HEDGES_Combos, ORDERS>>
valVars == <<val_call, val_ret>>
tailVars == <<updated_ORDERS, submitted, first_run>>
pipelineVars == <<sizingVars, ctdVars, pairVars, valVars, tailVars>>
refreshVars == <<USTs, FUTURES, market_data, ust_updated, fut_updated>>
bucketVars == <<now, tokens, last_checked, lock, thread, granted>>
slotVars == <<active_count, wake_at>>
orderVars == <<placed_csv, endpoint, posted, cancelled, placed_orders_runtime>>
svcVars == <<refreshVars, bucketVars, slotVars, orderVars>>
exceptRefresh == <<pipelineVars, bucketVars, slotVars, orderVars>>
exceptBucket == <<pipelineVars, refreshVars, slotVars, orderVars>>
exceptSlot == <<pipelineVars, refreshVars, orderVars>>

\* None / NaN / NaT: a value no price, factor, date or quantity takes
Null == -999999

\* the pipeline and the collaborators around it before any of them has run
PipelineIdle ==
    /\ row = Null /\ limit = Null /\ qty = Null
    /\ hedges_df = <<>> /\ usts = <<>> /\ removed = {}
    /\ HEDGES = <<>> /\ HEDGES_Combos = <<>> /\ ORDERS = <<>>
    /\ val_call = Null /\ val_ret = Null
    /\ updated_ORDERS = <<>> /\ submitted = <<>> /\ first_run = <<>>
RefreshIdle ==
    /\ USTs = <<>> /\ FUTURES = <<>> /\ market_data = <<>>
    /\ ust_updated = <<>> /\ fut_updated = <<>>
BucketIdle ==
    /\ now = 0 /\ tokens = 0 /\ last_checked = 0 /\ lock = 0
    /\ thread = <<>> /\ granted = <<>>
SlotIdle == active_count = Null /\ wake_at = 0
OrdersIdle ==
    /\ placed_csv = <<>> /\ endpoint = <<>> /\ posted = <<>>
    /\ cancelled = <<>> /\ placed_orders_runtime = <<>>
ServicesIdle == RefreshIdle /\ BucketIdle /\ SlotIdle /\ OrdersIdle
IdleExceptRefresh == PipelineIdle /\ BucketIdle /\ SlotIdle /\ OrdersIdle
IdleExceptBucket == PipelineIdle /\ RefreshIdle /\ SlotIdle /\ OrdersIdle
IdleExceptSlot == PipelineIdle /\ RefreshIdle /\ OrdersIdle

(***************************************************************************)
(* Bounds of the model.                                                    *)
(***************************************************************************)
MaxPrice == 3
MaxLimit == 8
MaxBonds == 3
MaxRows == 3
MaxTableRows == 2

(***************************************************************************)
(* Python arithmetic.                                                      *)
(***************************************************************************)
Abs(x) == IF x < 0 THEN -x ELSE x

\* n/d with the sign carried by the numerator
NormNum(n, d) == IF d < 0 THEN -n ELSE n
NormDen(d) == Abs(d)

\* Python 3 round() of the fraction n/d (d > 0): nearest integer, a tie
\* (exactly one half) goes to the even neighbour.
PyRound(n, d) ==
    LET q == n \div d
        rem == n - q * d
    IN  IF 2 * rem < d THEN q
        ELSE IF 2 * rem > d THEN q + 1
        ELSE IF q % 2 = 0 THEN q ELSE q + 1

(***************************************************************************)
(* optimize_quantities_for_row (KPIs2_Orders.py 212-248).                  *)
(***************************************************************************)
RowCostA(rw) == rw.A_FUT_MULTIPLIER * rw.A_FUT_PRICE
RowCostB(rw) == rw.B_FUT_MULTIPLIER * rw.B_FUT_PRICE

\* r = 1.0 if B_FUT_DV01 == 0 else A_FUT_DV01 / B_FUT_DV01, as the fraction
\* RatioNum/RatioDen with RatioDen > 0
RatioNum(rw) == IF rw.B_FUT_DV01 = 0 THEN 1 ELSE NormNum(rw.A_FUT_DV01, rw.B_FUT_DV01)
RatioDen(rw) == IF rw.B_FUT_DV01 = 0 THEN 1 ELSE NormDen(rw.B_FUT_DV01)

\* max_q_b = int(limit // cost_B) if cost_B > 0 else 1
MaxQb(cost_B, lim) == IF cost_B > 0 THEN lim \div cost_B ELSE 1

\* q_a_candidate = int(round(r * q_b)), raised to 1 when below 1
QaNoFloor(rw, q_b) == PyRound(RatioNum(rw) * q_b, RatioDen(rw))
QaCandidate(rw, q_b) ==
    LET q == PyRound(RatioNum(rw) * q_b, RatioDen(rw))
    IN  IF q < 1 THEN 1 ELSE q

\* the candidate the loop body forms for q_b: quantities, cost, and the error
\* abs(q_a/q_b - r) as the fraction errn/errd
Candidate(rw, q_b) ==
    LET q_a == QaCandidate(rw, q_b)
    IN  [none |-> FALSE,
         q_a  |-> q_a,
         q_b  |-> q_b,
         cost |-> q_a * RowCostA(rw) + q_b * RowCostB(rw),
         errn |-> Abs(q_a * RatioDen(rw) - RatioNum(rw) * q_b),
         errd |-> q_b * RatioDen(rw)]

\* best_q_a = best_q_b = None, best_cost = -1, best_error = inf
NoBest == [none |-> TRUE, q_a |-> 0, q_b |-> 0, cost |-> -1, errn |-> 1, errd |-> 0]

\* error_candidate < best_error (errd = 0 is float('inf'))
ErrLess(c, best) ==
    IF best.errd = 0 THEN TRUE ELSE c.errn * best.errd < best.errn * c.errd

\* the two branches that overwrite the best candidate (lines 234-244)
AcceptsIgnoringLimit(c, best, lim) ==
    \/ c.cost > best.cost
    \/ c.cost = best.cost /\ ErrLess(c, best)
Accepts(c, best, lim) ==
    /\ c.cost <= lim
    /\ \/ c.cost > best.cost
       \/ c.cost = best.cost /\ ErrLess(c, best)

\* for q_b in range(1, max_q_b + 1): ...
RECURSIVE Scan(_, _, _, _, _)
Scan(rw, lim, q_b, max_q_b, best) ==
    IF q_b > max_q_b THEN best
    ELSE LET c == Candidate(rw, q_b)
         IN  Scan(rw, lim, q_b + 1, max_q_b,
                  IF Accepts(c, best, lim) THEN c ELSE best)

optimize_quantities_for_row(rw, lim) ==
    LET best == Scan(rw, lim, 1, MaxQb(RowCostB(rw), lim), NoBest)
    IN  IF best.none
        THEN [A_Q_Value |-> 1, B_Q_Value |-> 1]
        ELSE [A_Q_Value |-> best.q_a, B_Q_Value |-> best.q_b]

(***************************************************************************)
(* Specification SpecSizing: the optimiser applied to one row.             *)
(***************************************************************************)
Multipliers == {1, 2}
Prices == 0..MaxPrice
DV01s == {-1, 0, 1, 2, 3, 5}

\* the worked example of the specification
ExampleRow ==
    [A_FUT_MULTIPLIER |-> 1, A_FUT_PRICE |-> 50, A_FUT_DV01 |-> 10,
     B_FUT_MULTIPLIER |-> 1, B_FUT_PRICE |-> 80, B_FUT_DV01 |-> 5]

SizingRows ==
    [A_FUT_MULTIPLIER : Multipliers, A_FUT_PRICE : Prices, A_FUT_DV01 : DV01s,
     B_FUT_MULTIPLIER : Multipliers, B_FUT_PRICE : Prices, B_FUT_DV01 : DV01s]

InitSizing ==
    /\ pc = "sizing_input"
    /\ \/ row \in SizingRows /\ limit \in 0..MaxLimit
       \/ row = ExampleRow /\ limit = 1000
    /\ qty = Null
    /\ hedges_df = <<>> /\ usts = <<>> /\ removed = {}
    /\ HEDGES = <<>> /\ HEDGES_Combos = <<>> /\ ORDERS = <<>>
    /\ val_call = Null /\ val_ret = Null
    /\ updated_ORDERS = <<>> /\ submitted = <<>> /\ first_run = <<>>
    /\ ServicesIdle

OptimizeRow ==
    /\ pc = "sizing_input"
    /\ qty' = optimize_quantities_for_row(row, limit)
    /\ pc' = "sizing_done"
    /\ UNCHANGED <<row, limit, ctdVars, pairVars, valVars, tailVars, svcVars>>

NextSizing == OptimizeRow

SpecSizing == InitSizing /\ [][NextSizing]_vars

(***************************************************************************)
(* process_futures_ctd (cf_ctd.py 169-324).  Dates are day numbers, the    *)
(* trade date (pd.Timestamp.today()) is day TradeDate.                     *)
(***************************************************************************)
\* offsets, in hundredths of a year: "ZT": (1.73, 2.02), ...
offsets ==
    [ZT  |-> <<173, 202>>,
     Z3N |-> <<273, 302>>,
     ZF  |-> <<411, 527>>,
     ZN  |-> <<647, 1002>>,
     TN  |-> <<940, 1002>>]

\* int(off * 365.25)
OffsetDays(hundredths) == (hundredths * 36525) \div 10000

min_maturity_date(hedge) == hedge.fut_expiry + OffsetDays(offsets[hedge.fut_ticker][1])
max_maturity_date(hedge) == hedge.fut_expiry + OffsetDays(offsets[hedge.fut_ticker][2])

\* usts[(maturity_date >= min) & (maturity_date <= max) & cf1.notna()]
IsEligible(hedge, b) ==
    /\ b.maturity_date >= min_maturity_date(hedge)
    /\ b.maturity_date <= max_maturity_date(hedge)
    /\ b.cf1 # Null

eligible(hedge, universe) == SelectSeq(universe, LAMBDA b : IsEligible(hedge, b))

\* T_days = (f_expiry - trade_date).days, 1 when not positive
TradeDate == 0
T_days(hedge) ==
    IF hedge.fut_expiry - TradeDate <= 0 THEN 1 ELSE hedge.fut_expiry - TradeDate

\* a fraction with denominator 0 stands for NaN
NaNFrac == <<0, 0>>
IsNaN(x) == x[2] = 0

\* eligible['irr'], a fraction <<numerator, denominator>> with a positive
\* denominator (prices are positive), NaN when the bond has no price
irr(hedge, b) ==
    IF b.price = Null THEN NaNFrac
    ELSE <<((hedge.fut_price * b.cf1 + 0) - (b.price + 0)) * 365,
           (b.price + 0) * T_days(hedge)>>

FracLess(x, y) == x[1] * y[2] < y[1] * x[2]
FracLessEq(x, y) == x[1] * y[2] <= y[1] * x[2]

\* Series.idxmax(): position of the first maximum, NaN skipped; 0 when every
\* value is NaN (the lookup then raises and the row is skipped)
RECURSIVE IdxScan(_, _, _, _)
IdxLastMax(hedge, el, i, best) ==
    IF i > Len(el) THEN best
    ELSE IdxScan(hedge, el, i + 1,
            IF IsNaN(irr(hedge, el[i])) THEN best
            ELSE IF best = 0 THEN i
            ELSE IF FracLessEq(irr(hedge, el[best]), irr(hedge, el[i])) THEN i
            ELSE best)
IdxStep(hedge, el, i, best) ==
    IF i > Len(el) THEN best
    ELSE IdxScan(hedge, el, i + 1,
            IF IsNaN(irr(hedge, el[i])) THEN best
            ELSE IF best = 0 THEN i
            ELSE IF FracLess(irr(hedge, el[best]), irr(hedge, el[i])) THEN i
            ELSE best)
IdxScan(hedge, el, i, best) == IdxStep(hedge, el, i, best)
idxmax(hedge, el) == IdxScan(hedge, el, 1, 0)

\* hedge.get('fut_ticker') is None
NoTicker == "None"

NoCtd ==
    [ctd_conid |-> Null, ctd_price |-> Null, ctd_cf |-> Null,
     ctd_maturity_date |-> Null, ctd_irr |-> NaNFrac]

\* one iteration of the loop over hedges_df.iterrows(): the CTD columns of
\* the row (None when the row is skipped)
CtdOf(hedge, universe) ==
    IF hedge.fut_ticker = NoTicker THEN NoCtd
    ELSE IF hedge.fut_ticker \notin DOMAIN offsets THEN NoCtd
    ELSE LET el == eligible(hedge, universe)
         IN  IF el = <<>> THEN NoCtd
             ELSE IF hedge.fut_price = Null THEN NoCtd
             ELSE LET k == idxmax(hedge, el)
                  IN  IF k = 0 THEN NoCtd
                      ELSE [ctd_conid |-> el[k].conid,
                            ctd_price |-> el[k].price,
                            ctd_cf |-> el[k].cf1,
                            ctd_maturity_date |-> el[k].maturity_date,
                            ctd_irr |-> irr(hedge, el[k])]

HedgeKeys == {"fut_ticker", "fut_expiry", "fut_price"}
Quote(h) == [k \in HedgeKeys |-> h[k]]

process_futures_ctd(hedges, universe) ==
    [i \in 1..Len(hedges) |->
        LET c == CtdOf(Quote(hedges[i]), universe)
        IN  [fut_ticker |-> hedges[i].fut_ticker,
             fut_expiry |-> hedges[i].fut_expiry,
             fut_price |-> hedges[i].fut_price,
             ctd_conid |-> c.ctd_conid,
             ctd_price |-> c.ctd_price,
             ctd_cf |-> c.ctd_cf,
             ctd_maturity_date |-> c.ctd_maturity_date,
             ctd_irr |-> c.ctd_irr]]

(***************************************************************************)
(* Specification SpecCTD: CTD selection over a bond universe, and the      *)
(* selection rerun after a selected bond has left the universe.            *)
(***************************************************************************)
Tickers == {"ZT", "XX"}
Expiries == {0, 30}
FutPrices == {Null, 100}
\* the window of a ZT is expiry + 631 .. expiry + 737 days: 631 is the first
\* eligible day of an expiry on day 0 and too early for one on day 30, 737
\* the last eligible day of an expiry on day 0, 738 too late for it
Maturities == {631, 737, 738}
CFs == {Null, 0, 1}
BondPrices == {Null, 95, 100}

HedgeInputs == [fut_ticker : Tickers, fut_expiry : Expiries, fut_price : FutPrices]
BondInputs == [maturity_date : Maturities, cf1 : CFs, price : BondPrices]

WithConids(bonds) ==
    [i \in 1..Len(bonds) |->
        [conid |-> i, maturity_date |-> bonds[i].maturity_date,
         cf1 |-> bonds[i].cf1, price |-> bonds[i].price]]

InitCTD ==
    /\ pc = "hedges"
    /\ \E h \in HedgeInputs :
          hedges_df = << [fut_ticker |-> h.fut_ticker, fut_expiry |-> h.fut_expiry,
                          fut_price |-> h.fut_price] @@ NoCtd >>
    /\ \E n \in 1..MaxBonds : \E bonds \in [1..n -> BondInputs] :
          usts = WithConids(bonds)
    /\ removed = {}
    /\ row = Null /\ limit = Null /\ qty = Null
    /\ HEDGES = <<>> /\ HEDGES_Combos = <<>> /\ ORDERS = <<>>
    /\ val_call = Null /\ val_ret = Null
    /\ updated_ORDERS = <<>> /\ submitted = <<>> /\ first_run = <<>>
    /\ ServicesIdle

ProcessFuturesCtd ==
    /\ pc = "hedges"
    /\ hedges_df' = process_futures_ctd(hedges_df, usts)
    /\ pc' = "ctd"
    /\ UNCHANGED <<usts, removed, sizingVars, pairVars, valVars, tailVars, svcVars>>

\* the bond selected for row i leaves the universe and the selection is rerun
RemoveCtdAndRerun ==
    /\ pc = "ctd"
    /\ \E i \in 1..Len(hedges_df) :
          /\ hedges_df[i].ctd_conid # Null
          /\ usts' = SelectSeq(usts, LAMBDA b : b.conid # hedges_df[i].ctd_conid)
          /\ removed' = removed \cup {hedges_df[i].ctd_conid}
    /\ hedges_df' = process_futures_ctd(hedges_df, usts')
    /\ UNCHANGED <<pc, sizingVars, pairVars, valVars, tailVars, svcVars>>

NextCTD == ProcessFuturesCtd \/ RemoveCtdAndRerun

SpecCTD == InitCTD /\ [][NextCTD]_vars

(***************************************************************************)
(* Exact fractions <<numerator, denominator>>, denominator positive, in    *)
(* lowest terms: the values the code holds in floats.                      *)
(***************************************************************************)
\* math.gcd
RECURSIVE GCD(_, _)
GCD(a, b) == IF b = 0 THEN Abs(a) ELSE GCD(b, a % Abs(b))

Fr(n, d) ==
    LET g == GCD(Abs(n), Abs(d))
        sgn == IF d < 0 THEN -1 ELSE 1
    IN  <<(sgn * n) \div g, (sgn * d) \div g>>
FrInt(k) == <<k, 1>>
\* x <= y for two reduced fractions, over their common denominator
FrLessEq(x, y) ==
    LET g == GCD(x[2], y[2])
    IN  x[1] * (y[2] \div g) <= y[1] * (x[2] \div g)
FrAdd(x, y) == Fr(x[1] * y[2] + y[1] * x[2], x[2] * y[2])
FrSub(x, y) == Fr(x[1] * y[2] - y[1] * x[2], x[2] * y[2])
FrMul(x, y) == Fr(x[1] * y[1], x[2] * y[2])
FrDiv(x, y) == Fr(x[1] * y[2], x[2] * y[1])

(***************************************************************************)
(* Basis and carry per leg (KPIs2_Orders.py 32-47, 76-100).                *)
(***************************************************************************)
sia_gross_basis(fut_price, cf, dirty_price) == FrInt(fut_price * cf - dirty_price)

sia_implied_repo(fut_price, dirty_price, cf, days) ==
    FrMul(Fr(fut_price * cf - dirty_price, dirty_price), Fr(365, days))

\* the financing cost on a 360-day year
sia_carry_360(gross_basis, implied_repo, dirty_price, days) ==
    LET financing_cost ==
            FrDiv(FrMul(FrMul(FrInt(dirty_price), implied_repo), FrInt(days)),
                  FrInt(360))
    IN  FrSub(gross_basis, financing_cost)

sia_carry(gross_basis, implied_repo, dirty_price, days) ==
    LET financing_cost ==
            FrDiv(FrMul(FrMul(FrInt(dirty_price), implied_repo), FrInt(days)),
                  FrInt(365))
    IN  FrSub(gross_basis, financing_cost)

sia_net_basis(gross_basis, carry) == FrAdd(gross_basis, carry)

\* the leg columns calculate_quantities_with_sma adds for one HEDGES row
LegImpliedRepo(h) == sia_implied_repo(h.FUT_PRICE, h.DirtyPrice, h.CTD_CF, h.Days)
LegNetBasis(h) ==
    LET gb == sia_gross_basis(h.FUT_PRICE, h.CTD_CF, h.DirtyPrice)
    IN  sia_net_basis(gb, sia_carry(gb, LegImpliedRepo(h), h.DirtyPrice, h.Days))

(***************************************************************************)
(* run_fixed_income_calculation (ctd_fut_kpis.py 90-103): the combinations *)
(* of HEDGES rows, in the order of itertools.product(rows, repeat=2).      *)
(***************************************************************************)
\* the filter of the list comprehension
PairsAnyTwoRows(hedges, i, j) == i # j
PairsFilter(hedges, i, j) == hedges[i].CTD_CONID # hedges[j].CTD_CONID

\* the pairs of row positions kept, row1 outer, row2 inner
RECURSIVE PairsFrom(_, _, _)
PairsFrom(hedges, i, j) ==
    IF i > Len(hedges) THEN <<>>
    ELSE IF j > Len(hedges) THEN PairsFrom(hedges, i + 1, 1)
    ELSE (IF PairsFilter(hedges, i, j) THEN << <<i, j>> >> ELSE <<>>)
             \o PairsFrom(hedges, i, j + 1)

combinations(hedges) == PairsFrom(hedges, 1, 1)

\* {**row1_data, **row2_data}: row1 under the prefix A_, row2 under B_
combined_row(h1, h2) ==
    [A_FUT_CONID |-> h1.FUT_CONID, B_FUT_CONID |-> h2.FUT_CONID,
     A_FUT_SRC |-> h1.FUT_SRC, B_FUT_SRC |-> h2.FUT_SRC,
     A_CTD_CONID |-> h1.CTD_CONID, B_CTD_CONID |-> h2.CTD_CONID,
     A_FUT_MULTIPLIER |-> h1.FUT_MULTIPLIER, B_FUT_MULTIPLIER |-> h2.FUT_MULTIPLIER,
     A_FUT_PRICE |-> h1.FUT_PRICE, B_FUT_PRICE |-> h2.FUT_PRICE,
     A_FUT_DV01 |-> h1.FUT_DV01, B_FUT_DV01 |-> h2.FUT_DV01,
     A_FUT_VOLUME |-> h1.FUT_VOLUME, B_FUT_VOLUME |-> h2.FUT_VOLUME,
     A_CTD_CF |-> h1.CTD_CF, B_CTD_CF |-> h2.CTD_CF,
     A_DirtyPrice |-> h1.DirtyPrice, B_DirtyPrice |-> h2.DirtyPrice,
     A_Days |-> h1.Days, B_Days |-> h2.Days]

\* pd.DataFrame(combos_data): the rows get the index labels 0, 1, ... in the
\* order of the list
run_fixed_income_calculation(hedges) ==
    LET c == combinations(hedges)
    IN  [k \in 1..Len(c) |->
            [index |-> k - 1] @@ combined_row(hedges[c[k][1]], hedges[c[k][2]])]

(***************************************************************************)
(* calculate_quantities_with_sma / calculate_quantities                    *)
(* (KPIs2_Orders.py 63-210).                                               *)
(***************************************************************************)
LegA(c) ==
    [FUT_PRICE |-> c.A_FUT_PRICE, CTD_CF |-> c.A_CTD_CF,
     DirtyPrice |-> c.A_DirtyPrice, Days |-> c.A_Days]
LegB(c) ==
    [FUT_PRICE |-> c.B_FUT_PRICE, CTD_CF |-> c.B_CTD_CF,
     DirtyPrice |-> c.B_DirtyPrice, Days |-> c.B_Days]

\* limit = 0.99 * SMA (SMA is a multiple of 100 in the model)
Limit(sma) == (99 * sma) \div 100

\* HEDGES_Combos['Row_Notional'] (lines 131-134): set from the quantities
\* the optimiser returned, before the reduction
NotionalOfReducedLot(c, q, lcm) ==
    (q.A_Q_Value \div lcm) * RowCostA(c) + (q.B_Q_Value \div lcm) * RowCostB(c)
Row_Notional(c, q, lcm) == q.A_Q_Value * RowCostA(c) + q.B_Q_Value * RowCostB(c)

\* HEDGES_Combos['PairsLCM'] (lines 139-143)
PairsLCM(q) == GCD(q.A_Q_Value, q.B_Q_Value)

\* the normalised quantities (lines 146-153)
ReducedFrontOnly(q, lcm) ==
    [A_Q_Value |-> IF lcm # 0 THEN q.A_Q_Value \div lcm ELSE q.A_Q_Value,
     B_Q_Value |-> q.B_Q_Value]
Reduced(q, lcm) ==
    [A_Q_Value |-> IF lcm # 0 THEN q.A_Q_Value \div lcm ELSE q.A_Q_Value,
     B_Q_Value |-> IF lcm # 0 THEN q.B_Q_Value \div lcm ELSE q.B_Q_Value]

\* HEDGES_Combos['PairsAdjNetBasis'] (lines 156-159), from the reduced
\* quantities
AdjNetBasisReducedSize(c, nbA, nbB, q, lcm) ==
    FrSub(FrMul(nbA, FrInt(q.A_Q_Value * c.A_FUT_MULTIPLIER)),
          FrMul(nbB, FrInt(q.B_Q_Value * c.B_FUT_MULTIPLIER)))
PairsAdjNetBasis(c, nbA, nbB, q, lcm) ==
    FrSub(FrMul(nbA, FrInt(q.A_Q_Value * c.A_FUT_MULTIPLIER * lcm)),
          FrMul(nbB, FrInt(q.B_Q_Value * c.B_FUT_MULTIPLIER * lcm)))

\* np.where(A_ImpliedRepo < B_ImpliedRepo, -1, 1) and its mirror
SignsSwapped(repoA, repoB) ==
    [A_Q_sign |-> IF FracLess(repoA, repoB) THEN 1 ELSE -1,
     B_Q_sign |-> IF FracLess(repoA, repoB) THEN -1 ELSE 1]
Signs(repoA, repoB) ==
    [A_Q_sign |-> IF FracLess(repoA, repoB) THEN -1 ELSE 1,
     B_Q_sign |-> IF FracLess(repoA, repoB) THEN 1 ELSE -1]

\* np.log of a volume, in thousandths
np_log(v) ==
    CASE v = 1 -> 0
      [] v = 2 -> 693
      [] v = 3 -> 1099
      [] v = 4 -> 1386
      [] OTHER -> 1609

\* Base_Ln = 1 + ln(volume) / 25
Base_Ln(v) == Fr(25000 + np_log(v), 25000)

\* Z_Ln_WeightedVol (line 191)
Z_Ln_WeightedVol(c) ==
    FrDiv(FrAdd(Base_Ln(c.A_FUT_VOLUME), Base_Ln(c.A_FUT_VOLUME)), FrInt(2))

\* the columns computed for one row up to the roll-direction signs
SizedRow(c, lim) ==
    LET q0 == optimize_quantities_for_row(c, lim)
        lcm == PairsLCM(q0)
        q == Reduced(q0, lcm)
        nbA == LegNetBasis(LegA(c))
        nbB == LegNetBasis(LegB(c))
        repoA == LegImpliedRepo(LegA(c))
        repoB == LegImpliedRepo(LegB(c))
        sg == Signs(repoA, repoB)
    IN  [A_NetBasis |-> nbA, B_NetBasis |-> nbB,
         A_ImpliedRepo |-> repoA, B_ImpliedRepo |-> repoB,
         cost_A |-> RowCostA(c), cost_B |-> RowCostB(c),
         A_Q_Value |-> q.A_Q_Value, B_Q_Value |-> q.B_Q_Value,
         Row_Notional |-> Row_Notional(c, q0, lcm),
         PairsLCM |-> lcm,
         PairsAdjNetBasis |-> PairsAdjNetBasis(c, nbA, nbB, q, lcm),
         A_Q_sign |-> sg.A_Q_sign, B_Q_sign |-> sg.B_Q_sign] @@ c

\* dropna on the volumes, then A_FUT_VOLUME > 0 and B_FUT_VOLUME > 0
HasVolume(c) ==
    /\ c.A_FUT_VOLUME # Null /\ c.B_FUT_VOLUME # Null
    /\ c.A_FUT_VOLUME > 0 /\ c.B_FUT_VOLUME > 0

\* the RENTD column (line 195)
RENTD(c) == FrMul(c.PairsAdjNetBasis, Z_Ln_WeightedVol(c))

WithRENTD(c) ==
    [RENTD |-> RENTD(c), Z_Ln_WeightedVol |-> Z_Ln_WeightedVol(c)] @@ c

\* sort_values(by='RENTD', ascending=False) with the default kind
\* 'quicksort', which is not stable: every arrangement of the row positions
\* in S with non-increasing RENTD is a possible result.
RECURSIVE SortOutcomes(_, _)
SortOutcomes(rows, S) ==
    IF S = {} THEN {<<>>}
    ELSE LET top == {i \in S : \A j \in S :
                        FrLessEq(rows[j].RENTD, rows[i].RENTD)}
         IN  UNION {{<<i>> \o t : t \in SortOutcomes(rows, S \ {i})} : i \in top}

\* drop_duplicates(keep='first'): a row goes when an earlier row equals it in
\* every column (the index label is no column)
Columns(r) == [r EXCEPT !.index = 0]
RECURSIVE drop_duplicates(_)
drop_duplicates(rows) ==
    IF rows = <<>> THEN <<>>
    ELSE LET front == drop_duplicates(SubSeq(rows, 1, Len(rows) - 1))
             last == rows[Len(rows)]
         IN  IF \E k \in 1..Len(front) : Columns(front[k]) = Columns(last)
             THEN front ELSE Append(front, last)

\* the table up to the RENTD column, before the sort (lines 109-195)
ScoredTable(combos, lim) ==
    LET sized == [k \in 1..Len(combos) |-> SizedRow(combos[k], lim)]
        kept == SelectSeq(sized, HasVolume)
    IN  [k \in 1..Len(kept) |-> WithRENTD(kept[k])]

(***************************************************************************)
(* Specification SpecPairs: pair generation, sizing and ranking of one     *)
(* run over a HEDGES table.                                                *)
(***************************************************************************)
QuotePrices == {20, 30}
Volumes == {0, 1, 3}
CtdIds == {1, 2}
SMAs == {100, 200}

\* FUT_MULTIPLIER is reference data of the contract
Multiplier(conid) == IF conid = 1 THEN 2 ELSE 1

\* ctd is the bond process_futures_ctd selected for the contract, Null when
\* it selected none (the row keeps None in every CTD column)
ContractInputs ==
    [quotes : {"both", "last"}, price : QuotePrices, volume : Volumes,
     ctd : CtdIds \cup {Null}]
\* per CTD bond: dirty price, DV01 (over the conversion factor)
BondKpis(ctd) ==
    [DirtyPrice : {20 * ctd}, FUT_DV01 : IF ctd = 1 THEN {1, 2} ELSE {1}]
BondTables == {b \in [CtdIds -> UNION {BondKpis(c) : c \in CtdIds}] :
                  \A c \in CtdIds : b[c] \in BondKpis(c)}

HedgeRow(conid, src, price, c, bonds) ==
    [FUT_CONID |-> conid, FUT_SRC |-> src, FUT_PRICE |-> price,
     FUT_MULTIPLIER |-> Multiplier(conid), FUT_VOLUME |-> c.volume,
     FUT_DV01 |-> IF c.ctd = Null THEN Null ELSE bonds[c.ctd].FUT_DV01,
     CTD_CONID |-> c.ctd,
     CTD_CF |-> IF c.ctd = Null THEN Null ELSE 1,
     DirtyPrice |-> IF c.ctd = Null THEN Null ELSE bonds[c.ctd].DirtyPrice,
     Days |-> IF c.ctd = Null THEN Null ELSE 365 * c.ctd]

\* transform_futures_hedges: a quote with bid and ask gives two rows that
\* differ in price and src only, any other quote one row
RECURSIVE HedgeRows(_, _, _)
HedgeRows(cs, bonds, k) ==
    IF k > Len(cs) THEN <<>>
    ELSE (IF cs[k].quotes = "both"
          THEN <<HedgeRow(k, "bid", cs[k].price, cs[k], bonds),
                 HedgeRow(k, "ask", cs[k].price + 10, cs[k], bonds)>>
          ELSE <<HedgeRow(k, "last", cs[k].price, cs[k], bonds)>>)
         \o HedgeRows(cs, bonds, k + 1)

InitPairs ==
    /\ pc = "kpis"
    /\ \E n \in 1..MaxRows : \E cs \in [1..n -> ContractInputs] :
          /\ n + Cardinality({k \in 1..n : cs[k].quotes = "both"}) <= MaxRows
          /\ \E bonds \in BondTables :
                \E rows \in {HedgeRows(cs, bonds, 1)} :
                   Len(rows) <= MaxRows /\ HEDGES = rows
    /\ HEDGES_Combos = <<>> /\ ORDERS = <<>>
    /\ row = Null /\ limit = Null /\ qty = Null
    /\ hedges_df = <<>> /\ usts = <<>> /\ removed = {}
    /\ val_call = Null /\ val_ret = Null
    /\ updated_ORDERS = <<>> /\ submitted = <<>> /\ first_run = <<>>
    /\ ServicesIdle

RunFixedIncomeCalculation ==
    /\ pc = "kpis"
    /\ HEDGES_Combos' = run_fixed_income_calculation(HEDGES)
    /\ pc' = "combos"
    /\ UNCHANGED <<HEDGES, ORDERS, sizingVars, ctdVars, valVars, tailVars, svcVars>>

\* the per-leg loop of calculate_quantities_with_sma raises: on an empty
\* table (no column to read), and in accrued_interest on a leg without CTD
\* (its maturity date is NaT, pd.Timestamp(month=nan, day=nan))
LegLoopRaises(combos) ==
    \/ combos = <<>>
    \/ \E k \in 1..Len(combos) :
          combos[k].A_Days = Null \/ combos[k].B_Days = Null

\* calculate_quantities_with_sma: the leg columns are computed, the account
\* value is read, the table is sized, scored, sorted and the first three
\* distinct rows are emitted.  A table with fewer than three distinct rows
\* (A, B, C unbound) raises.
CalculateQuantitiesWithSma ==
    /\ pc = "combos"
    /\ IF LegLoopRaises(HEDGES_Combos)
       THEN /\ pc' = "raised"
            /\ UNCHANGED <<limit, HEDGES_Combos, ORDERS, svcVars>>
       ELSE \E sma \in SMAs :
              \E scored \in {ScoredTable(HEDGES_Combos, Limit(sma))} :
                \E order \in SortOutcomes(scored, 1..Len(scored)) :
                   LET sorted == [k \in 1..Len(order) |-> scored[order[k]]]
                       unique_rows == drop_duplicates(sorted)
                   IN  /\ limit' = Limit(sma)
                       /\ IF Len(unique_rows) >= 3
                          THEN /\ HEDGES_Combos' = sorted
                               /\ ORDERS' = SubSeq(unique_rows, 1, 3)
                               /\ pc' = "orders"
                          ELSE /\ pc' = "UnboundLocalError"   \* A, B, C unset
                               /\ UNCHANGED <<HEDGES_Combos, ORDERS, svcVars>>
    /\ UNCHANGED <<HEDGES, row, qty, ctdVars, valVars, tailVars, svcVars>>

NextPairs == RunFixedIncomeCalculation \/ CalculateQuantitiesWithSma

SpecPairs == InitPairs /\ [][NextPairs]_vars

(***************************************************************************)
(* Claims about the position sizing optimiser (SpecSizing).                *)
(***************************************************************************)
SizingDone == pc = "sizing_done"
QtyCost == qty.A_Q_Value * RowCostA(row) + qty.B_Q_Value * RowCostB(row)
SizingPre ==
    /\ RowCostA(row) > 0
    /\ RowCostB(row) > 0
    /\ limit >= RowCostA(row) + RowCostB(row)

\* C1: with positive per-contract costs, any DV01 ratio and a limit of at
\* least costFront + costBack, the optimiser returns Qfront >= 1 and
\* Qback >= 1 whose total cost does not exceed the limit, the (1,1) fallback
\* included.
C1_SizingWithinLimit ==
    (SizingDone /\ SizingPre) =>
        /\ qty.A_Q_Value >= 1
        /\ qty.B_Q_Value >= 1
        /\ QtyCost <= limit

\* the precondition holds, the scan ran over at least two Qback values, none
\* was feasible, and the fallback (1,1) came back
C1_Witness ==
    /\ SizingDone /\ SizingPre
    /\ MaxQb(RowCostB(row), limit) >= 2
    /\ \A q_b \in 1..MaxQb(RowCostB(row), limit) : Candidate(row, q_b).cost > limit
    /\ qty = [A_Q_Value |-> 1, B_Q_Value |-> 1]

\* The reference scan, stated from the rule and not from the loop.
RefRatioNum == IF row.B_FUT_DV01 = 0 THEN 1 ELSE NormNum(row.A_FUT_DV01, row.B_FUT_DV01)
RefRatioDen == IF row.B_FUT_DV01 = 0 THEN 1 ELSE NormDen(row.B_FUT_DV01)
RefQfront(q_b) ==
    LET q == PyRound(RefRatioNum * q_b, RefRatioDen)
    IN  IF q >= 1 THEN q ELSE 1
RefCost(q_b) == RefQfront(q_b) * RowCostA(row) + q_b * RowCostB(row)
\* |Qfront/Qback - r| of q1 strictly below that of q2 (cross-multiplied)
RefErrLess(q1, q2) ==
    Abs(RefQfront(q1) * RefRatioDen - RefRatioNum * q1) * q2
        < Abs(RefQfront(q2) * RefRatioDen - RefRatioNum * q2) * q1
RefErrEq(q1, q2) ==
    Abs(RefQfront(q1) * RefRatioDen - RefRatioNum * q1) * q2
        = Abs(RefQfront(q2) * RefRatioDen - RefRatioNum * q2) * q1
RefFeasible ==
    {q_b \in 1..(limit \div RowCostB(row)) : RefCost(q_b) <= limit}
RefBetterOrSame(q1, q2) ==
    \/ RefCost(q1) > RefCost(q2)
    \/ /\ RefCost(q1) = RefCost(q2)
       /\ \/ RefErrLess(q1, q2)
          \/ RefErrEq(q1, q2) /\ q1 <= q2
RefResult ==
    IF RefFeasible = {}
    THEN [A_Q_Value |-> 1, B_Q_Value |-> 1]
    ELSE LET q_b == CHOOSE q \in RefFeasible :
                        \A o \in RefFeasible : RefBetterOrSame(q, o)
         IN  [A_Q_Value |-> RefQfront(q_b), B_Q_Value |-> q_b]

\* C4: for a positive back-leg cost the optimiser returns what the reference
\* scan returns: over Qback = 1..floor(Limit/costBack) with
\* Qfront = max(1, round(r*Qback)), the feasible candidate of maximal cost,
\* cost ties to the smaller |Qfront/Qback - r| and then to the earlier Qback,
\* and (1,1) when none is feasible; the worked example gives (10,5), cost 900.
C4_EqualsReferenceScan ==
    /\ (SizingDone /\ RowCostB(row) > 0) => qty = RefResult
    /\ (SizingDone /\ row = ExampleRow /\ limit = 1000) =>
            /\ qty = [A_Q_Value |-> 10, B_Q_Value |-> 5]
            /\ QtyCost = 900

\* a scan of several feasible candidates that ends on a Qback above 1 with a
\* front quantity that was rounded from a half (r*Qback is k + 1/2)
C4_Witness ==
    /\ SizingDone
    /\ RowCostB(row) > 0
    /\ Cardinality(RefFeasible) >= 2
    /\ qty.B_Q_Value >= 2
    /\ qty.A_Q_Value >= 2
    /\ 2 * ((RatioNum(row) * qty.B_Q_Value) % RatioDen(row)) = RatioDen(row)
    /\ qty = RefResult

(***************************************************************************)
(* Claims about pair generation, sizing and ranking (SpecPairs).           *)
(***************************************************************************)
Combined == pc = "combos"
Emitted == pc = "orders"
TableRows == {HEDGES_Combos[k] : k \in 1..Len(HEDGES_Combos)}
HedgePositions == 1..Len(HEDGES)
\* a HEDGES row is known by its contract and the quote its price came from
Ident(h) == <<h.FUT_CONID, h.FUT_SRC>>
LegIdents(c) ==
    << <<c.A_FUT_CONID, c.A_FUT_SRC>>, <<c.B_FUT_CONID, c.B_FUT_SRC>> >>
CombinedLegs == {LegIdents(c) : c \in TableRows}
IdentPairs(P) == {<<Ident(HEDGES[p[1]]), Ident(HEDGES[p[2]])>> : p \in P}

\* C2: after the lot reduction every row's two quantities are coprime.
C2_ReducedCoprime ==
    Emitted => \A r \in TableRows : GCD(r.A_Q_Value, r.B_Q_Value) = 1

\* a row whose optimised quantities had a common factor above 1, both of
\* them above 1 after the reduction
C2_Witness ==
    /\ Emitted
    /\ \E r \in TableRows :
          /\ r.PairsLCM > 1
          /\ r.A_Q_Value * r.B_Q_Value > 1
          /\ GCD(r.A_Q_Value, r.B_Q_Value) = 1

\* the implied repo of the front leg is strictly below that of the back leg:
\* ((F*cf - P)/P) * (365/days) compared by cross-multiplication, P and days
\* being positive
RepoFrontLower(r) ==
    (r.A_FUT_PRICE * r.A_CTD_CF - r.A_DirtyPrice) * r.B_DirtyPrice * r.B_Days
        < (r.B_FUT_PRICE * r.B_CTD_CF - r.B_DirtyPrice) * r.A_DirtyPrice * r.A_Days
RepoBackLower(r) ==
    (r.B_FUT_PRICE * r.B_CTD_CF - r.B_DirtyPrice) * r.A_DirtyPrice * r.A_Days
        < (r.A_FUT_PRICE * r.A_CTD_CF - r.A_DirtyPrice) * r.B_DirtyPrice * r.B_Days

\* C8: in every row whose two implied repo rates differ, the leg with the
\* strictly lower implied repo has sign -1 and the other leg sign +1.
C8_LowerRepoLegShort ==
    Emitted => \A r \in TableRows :
        /\ RepoFrontLower(r) => (r.A_Q_sign = -1 /\ r.B_Q_sign = 1)
        /\ RepoBackLower(r) => (r.B_Q_sign = -1 /\ r.A_Q_sign = 1)

\* one table with a row whose front leg is short, a row whose back leg is
\* short, and a row of equal rates
C8_Witness ==
    /\ Emitted
    /\ \E r \in TableRows : RepoFrontLower(r) /\ r.A_Q_sign = -1
    /\ \E r \in TableRows : RepoBackLower(r) /\ r.B_Q_sign = -1
    /\ \E r \in TableRows : ~RepoFrontLower(r) /\ ~RepoBackLower(r)

\* the size of one leg of the lot the optimiser returned, in units of the
\* underlying: reduced quantity x contract multiplier x common factor
LegSize(q, mult, lcm) == q * mult * lcm

C10_NotionalOfOptimisedLot ==
    Emitted => \A r \in TableRows :
        r.Row_Notional
            = r.PairsLCM * (r.A_Q_Value * r.cost_A + r.B_Q_Value * r.cost_B)

\* a row reduced by a common factor above 1: the recorded notional is above
\* that of the reduced lot
C10_Witness ==
    /\ Emitted
    /\ \E r \in TableRows :
          /\ r.PairsLCM > 1
          /\ r.Row_Notional > r.A_Q_Value * r.cost_A + r.B_Q_Value * r.cost_B
          /\ r.Row_Notional <= limit

\* C10 as stated: Row_Notional is A_Q_Value*cost_A + B_Q_Value*cost_B
\* evaluated with the reduced quantities.
C10_AsStated ==
    Emitted => \A r \in TableRows :
        r.Row_Notional = r.A_Q_Value * r.cost_A + r.B_Q_Value * r.cost_B

\* the ordered pairs of positions of HEDGES rows whose CTD bonds differ
DifferentCtdPairs ==
    {p \in HedgePositions \X HedgePositions :
        HEDGES[p[1]].CTD_CONID # HEDGES[p[2]].CTD_CONID}
\* the ordered pairs of positions of two different HEDGES rows
DifferentRowPairs ==
    {p \in HedgePositions \X HedgePositions : p[1] # p[2]}

\* C7: over HEDGES rows that carry a CTD assignment, the combinations are
\* exactly the ordered pairs (front, back) of rows whose CTD bonds differ,
\* each once, the front row's data on the A_ leg and the back row's on the
\* B_ leg; no combination has the same row on both legs and (a,b) is present
\* iff (b,a) is; rows that share a CTD bond are not paired, also when they
\* are different futures contracts.
C7_PairsOfDifferentCtd ==
    Combined =>
        /\ CombinedLegs = IdentPairs(DifferentCtdPairs)
        /\ Len(HEDGES_Combos) = Cardinality(DifferentCtdPairs)
        /\ \A c \in TableRows :
              /\ LegIdents(c)[1] # LegIdents(c)[2]
              /\ <<LegIdents(c)[2], LegIdents(c)[1]>> \in CombinedLegs
              /\ \E p \in DifferentCtdPairs :
                    Columns(c) = Columns([index |-> 0]
                        @@ combined_row(HEDGES[p[1]], HEDGES[p[2]]))

\* two different futures contracts share a CTD bond and a third row has
\* another one: there are combinations, and none pairs the two
C7_Witness ==
    /\ Combined
    /\ Len(HEDGES_Combos) >= 4
    /\ \E i, j \in HedgePositions :
          /\ HEDGES[i].FUT_CONID # HEDGES[j].FUT_CONID
          /\ HEDGES[i].CTD_CONID = HEDGES[j].CTD_CONID
          /\ <<Ident(HEDGES[i]), Ident(HEDGES[j])>> \notin CombinedLegs

\* C7 as stated: the combinations are all ordered pairs of two different
\* assignments, two different futures contracts being paired also when they
\* share a CTD bond, so n assignments give n*(n-1) combinations.
C7_AsStated ==
    Combined =>
        /\ CombinedLegs = IdentPairs(DifferentRowPairs)
        /\ Len(HEDGES_Combos) = Len(HEDGES) * (Len(HEDGES) - 1)

\* C5 as stated: the emitted list is non-increasing in RENTD, and emitted
\* rows of equal RENTD are in the order they had in the table before the
\* sort.
C5_NonIncreasingStableTies ==
    Emitted => \A k \in 1..(Len(ORDERS) - 1) :
        /\ FrLessEq(ORDERS[k + 1].RENTD, ORDERS[k].RENTD)
        /\ ORDERS[k + 1].RENTD = ORDERS[k].RENTD
              => ORDERS[k].index < ORDERS[k + 1].index

\* C6 as stated: no two emitted candidates have the same (front contract
\* id, back contract id).
C6_NoTwoEmittedShareLegIds ==
    Emitted => \A i, j \in 1..Len(ORDERS) :
        (i # j) =>
            <<ORDERS[i].A_FUT_CONID, ORDERS[i].B_FUT_CONID>>
                # <<ORDERS[j].A_FUT_CONID, ORDERS[j].B_FUT_CONID>>

(***************************************************************************)
(* Claims about CTD selection (SpecCTD).                                   *)
(***************************************************************************)
Selected == pc = "ctd"
UniversePositions == 1..Len(usts)
\* the eligible bonds of a row whose IRR is a number
PricedEligible(h) ==
    {k \in UniversePositions : IsEligible(Quote(h), usts[k]) /\ usts[k].price # Null}
\* IRR of bond j <= IRR of bond k for futures price F: ((F*cf - P)/P) * (365/T)
\* compared by cross-multiplication, P and T being positive
IrrLessEq(F, j, k) ==
    (F * usts[j].cf1 - usts[j].price) * usts[k].price
        <= (F * usts[k].cf1 - usts[k].price) * usts[j].price
CanSelect(h) ==
    /\ h.fut_ticker \in DOMAIN offsets
    /\ h.fut_price # Null
    /\ PricedEligible(h) # {}

\* C3: the bond selected for a futures row is a bond of the universe that is
\* eligible for the row, its IRR is maximal over the eligible bonds that
\* have an IRR, and no eligible bond earlier in input order has the same
\* IRR; a row with a known series, a price and an eligible bond with an IRR
\* has a selected bond.  After the selected bond has been removed from the
\* universe and the selection rerun, the same holds over the remaining
\* universe, so a removed bond is never the selected one.
C3_CtdIsFirstMaxIrr ==
    Selected => \A i \in 1..Len(hedges_df) :
        LET h == hedges_df[i]
        IN  /\ CanSelect(h) => h.ctd_conid # Null
            /\ h.ctd_conid # Null =>
                  /\ h.ctd_conid \notin removed
                  /\ \E k \in PricedEligible(h) :
                        /\ usts[k].conid = h.ctd_conid
                        /\ \A j \in PricedEligible(h) :
                              /\ IrrLessEq(h.fut_price, j, k)
                              /\ j < k => ~IrrLessEq(h.fut_price, k, j)

\* the first selection was removed and the rerun selected, of two remaining
\* eligible bonds of equal IRR, the earlier one
C3_Witness ==
    /\ Selected
    /\ removed # {}
    /\ \E i \in 1..Len(hedges_df) :
          LET h == hedges_df[i]
          IN  /\ h.ctd_conid # Null
              /\ \E j, k \in PricedEligible(h) :
                    /\ j < k
                    /\ usts[j].conid = h.ctd_conid
                    /\ IrrLessEq(h.fut_price, j, k)
                    /\ IrrLessEq(h.fut_price, k, j)

\* the bond of the universe that row h has as its CTD
CtdBonds(h) == {k \in UniversePositions : usts[k].conid = h.ctd_conid}

\* C11 as stated: every bond selected as CTD has a known, non-zero
\* conversion factor and a maturity date inside the window of the row's
\* series.
C11_SelectedHasNonzeroCfInWindow ==
    Selected => \A i \in 1..Len(hedges_df) :
        hedges_df[i].ctd_conid # Null =>
            \A k \in CtdBonds(hedges_df[i]) :
                /\ usts[k].cf1 # Null
                /\ usts[k].cf1 # 0
                /\ usts[k].maturity_date >= min_maturity_date(Quote(hedges_df[i]))
                /\ usts[k].maturity_date <= max_maturity_date(Quote(hedges_df[i]))

\* the HEDGES rows for which process_futures_ctd selected no bond
NoCtdRows == {i \in HedgePositions : HEDGES[i].CTD_CONID = Null}
OnALeg(h, c) == Ident(h) = LegIdents(c)[1] \/ Ident(h) = LegIdents(c)[2]

\* C12 as stated: a futures row without CTD assignment appears on neither
\* leg of any combination produced by run_fixed_income_calculation nor in
\* any emitted candidate.
C12_NoCtdRowOnNoLeg ==
    \A i \in NoCtdRows :
        /\ \A c \in TableRows : ~OnALeg(HEDGES[i], c)
        /\ \A k \in 1..Len(ORDERS) : ~OnALeg(HEDGES[i], ORDERS[k])

\* C13 as stated: for every scored row the weight multiplied into the score
\* is the average of the front leg's and the back leg's BaseLnVolume, and
\* RENTD is PairsAdjNetBasis times that weight.
C13_WeightIsAverageOfBothLegs ==
    Emitted => \A r \in TableRows :
        /\ r.Z_Ln_WeightedVol
              = FrDiv(FrAdd(Base_Ln(r.A_FUT_VOLUME), Base_Ln(r.B_FUT_VOLUME)),
                      FrInt(2))
        /\ r.RENTD = FrMul(r.PairsAdjNetBasis, r.Z_Ln_WeightedVol)


(***************************************************************************)
(* Valuation (fixed_income_calc.py).  Numbers are exact fractions; a call  *)
(* gives back a number, None, or the exception it lets escape.  The        *)
(* arguments are Python floats, so a division by zero raises               *)
(* ZeroDivisionError.  Yields stay above -period, so 1 + Y is positive.    *)
(***************************************************************************)
MaxTermEighths == 8

NoneVal == <<1, 0>>
TypeError == <<2, 0>>
ZeroDivisionError == <<3, 0>>
IsNone(x) == x = NoneVal
Raises(x) == x \in {TypeError, ZeroDivisionError}

\* pow(x, k) for an integer k and x # 0
RECURSIVE FrPow(_, _)
FrPow(x, k) ==
    IF k = 0 THEN FrInt(1)
    ELSE IF k < 0 THEN FrDiv(FrInt(1), FrPow(x, -k))
    ELSE FrMul(x, FrPow(x, k - 1))

\* int(x): truncation toward zero
PyInt(x) == IF x[1] >= 0 THEN x[1] \div x[2] ELSE -((-x[1]) \div x[2])

\* round(ytm * 2) to the nearest integer with no tie rule: the mutation of
\* round_ytm that truncates instead
RoundYtmTruncating(ytm) ==
    IF IsNone(ytm) THEN NoneVal ELSE Fr(PyInt(FrMul(ytm, FrInt(2))), 2)

round_ytm(ytm) ==
    IF IsNone(ytm) THEN NoneVal
    ELSE LET x == FrMul(ytm, FrInt(2)) IN Fr(PyRound(x[1], x[2]), 2)

\* T = int(rounded_term * period), as BPrice, MDur and Cvx each compute it
CouponPeriods(term, period) == PyInt(FrMul(round_ytm(term), FrInt(period)))

\* accrual is None unless begin, settle and next_coupon are all given, and
\* is accrual_period(begin, settle, next_coupon, day_count) when they are
BPrice(cpn, term, yield_, period, accrual) ==
    IF IsNone(term) \/ IsNone(yield_) THEN NoneVal
    ELSE IF IsNone(round_ytm(term)) THEN NoneVal
    ELSE LET T == CouponPeriods(term, period)
             C == FrDiv(cpn, FrInt(period))
             Y == FrDiv(yield_, FrInt(period))
             base == FrAdd(FrInt(1), Y)
             price == IF Y[1] = 0
                      THEN NoneVal   \* except ZeroDivisionError: price = None
                      ELSE FrAdd(FrDiv(FrMul(C, FrSub(FrInt(1), FrPow(base, -T))), Y),
                                 FrDiv(FrInt(100), FrPow(base, T)))
         IN  IF IsNone(accrual) THEN price
             ELSE IF IsNone(price) THEN TypeError   \* pow(1 + Y, v) * None
             ELSE FrSub(FrMul(FrPow(base, accrual[1]), price), FrMul(accrual, C))

MDur(cpn, term, yield_, period, accrual) ==
    IF IsNone(term) \/ IsNone(yield_) THEN NoneVal
    ELSE IF IsNone(round_ytm(term)) THEN NoneVal
    ELSE LET T == CouponPeriods(term, period)
             C == FrDiv(cpn, FrInt(period))
             Y == FrDiv(yield_, FrInt(period))
             base == FrAdd(FrInt(1), Y)
             P == BPrice(cpn, term, yield_, period, accrual)
             annuity == FrSub(FrInt(1), FrPow(base, -T))
         IN  IF Raises(P) THEN P
             ELSE IF IsNone(P) \/ P[1] = 0 THEN NoneVal
             ELSE IF ~IsNone(accrual)
             THEN LET v == accrual
                      P2 == FrMul(FrPow(base, v[1]), P)
                      mdur ==
                        FrAdd(FrMul(FrDiv(FrMul(FrMul(FrSub(FrInt(0), v),
                                                      FrPow(base, v[1] - 1)), C), Y),
                                    annuity),
                              FrMul(FrPow(base, v[1]),
                                    FrAdd(FrSub(FrMul(FrDiv(C, FrPow(Y, 2)), annuity),
                                                FrDiv(FrMul(FrInt(T), C),
                                                      FrMul(Y, FrPow(base, T + 1)))),
                                          FrDiv(FrMul(FrSub(FrInt(T), v), FrInt(100)),
                                                FrPow(base, T + 1)))))
                  IN  FrDiv(mdur, FrMul(FrInt(period), P2))
             ELSE LET mdur ==
                        FrAdd(FrMul(FrDiv(C, FrPow(Y, 2)), annuity),
                              FrDiv(FrMul(FrInt(T), FrSub(FrInt(100), FrDiv(C, Y))),
                                    FrPow(base, T + 1)))
                  IN  FrDiv(mdur, FrMul(FrInt(period), P))

MacDur(cpn, term, yield_, period, accrual) ==
    LET mdur == MDur(cpn, term, yield_, period, accrual)
    IN  IF Raises(mdur) THEN mdur
        ELSE IF IsNone(mdur) THEN NoneVal
        ELSE FrMul(mdur, FrAdd(FrInt(1), FrDiv(yield_, FrInt(period))))

\* round(mdur * P * 0.0001, 5)
DV01(cpn, term, yield_, period, accrual) ==
    LET P == BPrice(cpn, term, yield_, period, accrual)
        mdur == MDur(cpn, term, yield_, period, accrual)
    IN  IF Raises(P) THEN P
        ELSE IF Raises(mdur) THEN mdur
        ELSE IF IsNone(P) \/ IsNone(mdur) THEN NoneVal
        ELSE LET x == FrMul(FrMul(mdur, P), FrInt(10))
             IN  Fr(PyRound(x[1], x[2]), 100000)

Cvx(cpn, term, yield_, period, accrual) ==
    IF IsNone(term) \/ IsNone(yield_) THEN NoneVal
    ELSE IF IsNone(round_ytm(term)) THEN NoneVal
    ELSE LET T == CouponPeriods(term, period)
             C == FrDiv(cpn, FrInt(period))
             Y == FrDiv(yield_, FrInt(period))
             base == FrAdd(FrInt(1), Y)
             P == BPrice(cpn, term, yield_, period, accrual)
             annuity == FrSub(FrInt(1), FrPow(base, -T))
             v == IF IsNone(accrual) THEN FrInt(0) ELSE accrual
             term1 == FrMul(FrDiv(FrMul(FrMul(FrMul(FrSub(FrInt(0), v),
                                                    FrSub(v, FrInt(1))),
                                              FrPow(base, v[1] - 2)), C), Y),
                            annuity)
             term2 == FrMul(FrMul(FrMul(FrInt(2), v), FrPow(base, v[1] - 1)),
                            FrSub(FrMul(FrDiv(C, FrPow(Y, 2)), annuity),
                                  FrDiv(FrMul(FrInt(T), C),
                                        FrMul(Y, FrPow(base, T + 1)))))
             term3 == FrMul(FrPow(base, v[1]),
                            FrAdd(FrAdd(FrMul(FrDiv(FrSub(FrInt(0), C), FrPow(Y, 3)),
                                              annuity),
                                        FrDiv(FrMul(FrInt(2 * T), C),
                                              FrMul(FrPow(Y, 2), FrPow(base, T + 1)))),
                                  FrDiv(FrMul(FrInt(T * (T + 1)), C),
                                        FrMul(Y, FrPow(base, T + 2)))))
             term4 == FrDiv(FrMul(FrMul(FrSub(FrInt(T), v), FrInt(T + 1)), FrInt(100)),
                            FrPow(base, T + 2 - v[1]))
             dcv == FrAdd(FrSub(FrSub(term1, term2), term3), term4)
         IN  IF Raises(P) THEN P
             ELSE IF IsNone(P) \/ P[1] = 0 THEN NoneVal
             ELSE FrDiv(dcv, FrMul(P, FrInt(period * period)))

\* the three prices of a finite difference; the first exception escapes
ShockedPrices(cpn, term, yield_, period, accrual, delta_y) ==
    [price |-> BPrice(cpn, term, yield_, period, accrual),
     price_up |-> BPrice(cpn, term, FrAdd(yield_, delta_y), period, accrual),
     price_down |-> BPrice(cpn, term, FrSub(yield_, delta_y), period, accrual)]

FirstRaise(p) ==
    IF Raises(p.price) THEN p.price
    ELSE IF Raises(p.price_up) THEN p.price_up
    ELSE p.price_down

approximate_duration(cpn, term, yield_, period, accrual, delta_y) ==
    IF IsNone(yield_) THEN NoneVal
    ELSE LET p == ShockedPrices(cpn, term, yield_, period, accrual, delta_y)
         IN  IF Raises(FirstRaise(p)) THEN FirstRaise(p)
             ELSE IF IsNone(p.price) \/ p.price[1] = 0 THEN NoneVal
             ELSE IF IsNone(p.price_down) \/ IsNone(p.price_up)
             THEN TypeError   \* None - float
             ELSE FrDiv(FrSub(p.price_down, p.price_up),
                        FrMul(FrMul(FrInt(2), p.price), delta_y))

approximate_convexity(cpn, term, yield_, period, accrual, delta_y) ==
    IF IsNone(yield_) THEN NoneVal
    ELSE LET p == ShockedPrices(cpn, term, yield_, period, accrual, delta_y)
         IN  IF Raises(FirstRaise(p)) THEN FirstRaise(p)
             ELSE IF IsNone(p.price) \/ p.price[1] = 0 THEN NoneVal
             ELSE IF IsNone(p.price_down) \/ IsNone(p.price_up)
             THEN TypeError   \* None + float
             ELSE FrDiv(FrSub(FrAdd(p.price_down, p.price_up),
                              FrMul(FrInt(2), p.price)),
                        FrMul(p.price, FrMul(delta_y, delta_y)))

(***************************************************************************)
(* SpecValuation: one call of one valuation function.  The term handed in  *)
(* is the raw years-to-maturity, or round_ytm of it when the caller rounds *)
(* first (cf_ctd.py 293-295, and CTD_YTM in ctd_fut_kpis.py).              *)
(***************************************************************************)
Coupons == {<<1, 2>>, <<1, 1>>, <<50, 1>>, <<100, 1>>}
Yields == {NoneVal, <<0, 1>>, <<1, 2>>, <<1, 1>>}
Terms == {NoneVal} \cup {Fr(n, 8) : n \in 0..MaxTermEighths}
Accruals == {NoneVal, <<0, 1>>, <<1, 1>>}
Shocks == {<<1, 2>>, <<-1, 2>>}

ValuationCalls ==
    [cpn : Coupons, yrstomat : Terms, caller_rounds : BOOLEAN, yield_ : Yields,
     period : {2}, accrual : Accruals, delta_y : Shocks]

TermArg(c) == IF c.caller_rounds THEN round_ytm(c.yrstomat) ELSE c.yrstomat

\* the coupon-period count the call reaches, None when it returns before
PeriodsUsed(c) ==
    IF IsNone(TermArg(c)) \/ IsNone(c.yield_) THEN Null
    ELSE CouponPeriods(TermArg(c), c.period)

InitValuation ==
    /\ pc = "call"
    /\ val_call \in ValuationCalls
    /\ val_ret = Null
    /\ row = Null /\ limit = Null /\ qty = Null
    /\ hedges_df = <<>> /\ usts = <<>> /\ removed = {}
    /\ HEDGES = <<>> /\ HEDGES_Combos = <<>> /\ ORDERS = <<>>
    /\ updated_ORDERS = <<>> /\ submitted = <<>> /\ first_run = <<>>
    /\ ServicesIdle

CallBPrice ==
    /\ pc = "call"
    /\ LET c == val_call
       IN  val_ret' = [fn |-> "BPrice",
                       value |-> BPrice(c.cpn, TermArg(c), c.yield_, c.period, c.accrual),
                       T |-> PeriodsUsed(c)]
    /\ pc' = "returned"
    /\ UNCHANGED <<val_call, sizingVars, ctdVars, pairVars, tailVars, svcVars>>

CallMDur ==
    /\ pc = "call"
    /\ LET c == val_call
       IN  val_ret' = [fn |-> "MDur",
                       value |-> MDur(c.cpn, TermArg(c), c.yield_, c.period, c.accrual),
                       T |-> PeriodsUsed(c)]
    /\ pc' = "returned"
    /\ UNCHANGED <<val_call, sizingVars, ctdVars, pairVars, tailVars, svcVars>>

CallMacDur ==
    /\ pc = "call"
    /\ LET c == val_call
       IN  val_ret' = [fn |-> "MacDur",
                       value |-> MacDur(c.cpn, TermArg(c), c.yield_, c.period, c.accrual),
                       T |-> PeriodsUsed(c)]
    /\ pc' = "returned"
    /\ UNCHANGED <<val_call, sizingVars, ctdVars, pairVars, tailVars, svcVars>>

CallDV01 ==
    /\ pc = "call"
    /\ LET c == val_call
       IN  val_ret' = [fn |-> "DV01",
                       value |-> DV01(c.cpn, TermArg(c), c.yield_, c.period, c.accrual),
                       T |-> PeriodsUsed(c)]
    /\ pc' = "returned"
    /\ UNCHANGED <<val_call, sizingVars, ctdVars, pairVars, tailVars, svcVars>>

CallCvx ==
    /\ pc = "call"
    /\ LET c == val_call
       IN  val_ret' = [fn |-> "Cvx",
                       value |-> Cvx(c.cpn, TermArg(c), c.yield_, c.period, c.accrual),
                       T |-> PeriodsUsed(c)]
    /\ pc' = "returned"
    /\ UNCHANGED <<val_call, sizingVars, ctdVars, pairVars, tailVars, svcVars>>

CallApproximateDuration ==
    /\ pc = "call"
    /\ LET c == val_call
       IN  val_ret' = [fn |-> "approximate_duration",
                       value |-> approximate_duration(c.cpn, TermArg(c), c.yield_,
                                 c.period, c.accrual, c.delta_y),
                       T |-> PeriodsUsed(c)]
    /\ pc' = "returned"
    /\ UNCHANGED <<val_call, sizingVars, ctdVars, pairVars, tailVars, svcVars>>

CallApproximateConvexity ==
    /\ pc = "call"
    /\ LET c == val_call
       IN  val_ret' = [fn |-> "approximate_convexity",
                       value |-> approximate_convexity(c.cpn, TermArg(c), c.yield_,
                                 c.period, c.accrual, c.delta_y),
                       T |-> PeriodsUsed(c)]
    /\ pc' = "returned"
    /\ UNCHANGED <<val_call, sizingVars, ctdVars, pairVars, tailVars, svcVars>>

NextValuation ==
    \/ CallBPrice
    \/ CallMDur
    \/ CallMacDur
    \/ CallDV01
    \/ CallCvx
    \/ CallApproximateDuration
    \/ CallApproximateConvexity

SpecValuation == InitValuation /\ [][NextValuation]_vars


(***************************************************************************)
(* Claims about the valuation functions (SpecValuation).                   *)
(***************************************************************************)
ValuationReturned == pc = "returned"
IsFiniteDifference(fn) == fn \in {"approximate_duration", "approximate_convexity"}
ZeroYield(c) == ~IsNone(c.yield_) /\ c.yield_[1] = 0
ShockedYieldZero(c) ==
    /\ ~IsNone(c.yield_)
    /\ \/ FrAdd(c.yield_, c.delta_y)[1] = 0
       \/ FrSub(c.yield_, c.delta_y)[1] = 0
Degenerate(fn, c) ==
    \/ IsNone(c.yrstomat)
    \/ IsNone(c.yield_)
    \/ ZeroYield(c)
    \/ IsFiniteDifference(fn) /\ ShockedYieldZero(c)

\* C14 as stated: no call of BPrice, MDur, MacDur, DV01, Cvx,
\* approximate_duration or approximate_convexity raises, and the call gives
\* None when the term or the yield is missing, when the yield is zero, and
\* (finite differences) when yield + delta_y or yield - delta_y is zero, with
\* or without accrual dates.
C14_ValuationGivesNoneNeverRaises ==
    ValuationReturned =>
        /\ ~Raises(val_ret.value)
        /\ Degenerate(val_ret.fn, val_call) => IsNone(val_ret.value)

\* T counts the half-years of the half-year multiple nearest to the term t:
\* |T/2 - t| <= 1/4
NearestHalfYears(T, t) == Abs(2 * T * t[2] - 4 * t[1]) <= t[2]

\* C15: whenever BPrice, MDur or Cvx gets as far as its coupon-period count,
\* that count T is twice the half-year multiple nearest to the raw term
\* (round(2 * term), a tie going to the even count), the same for the three
\* functions, whether the caller hands in the raw
\* term or round_ytm of it; rounding a rounded term changes nothing.
C15_TermDiscretization ==
    (ValuationReturned /\ val_ret.fn \in {"BPrice", "MDur", "Cvx"}
                       /\ val_ret.T # Null) =>
        /\ NearestHalfYears(val_ret.T, val_call.yrstomat)
        /\ val_ret.T = PyRound(2 * val_call.yrstomat[1], val_call.yrstomat[2])
        /\ round_ytm(round_ytm(val_call.yrstomat)) = round_ytm(val_call.yrstomat)

\* a term of 0.75 years handed in already rounded: 1.5 half-years is a tie
\* and goes to the even count 2
C15_Witness ==
    /\ ValuationReturned
    /\ val_ret.fn = "MDur"
    /\ val_call.caller_rounds
    /\ val_call.yrstomat = <<3, 4>>
    /\ val_ret.T = 2

\* the term is a positive multiple of half a year
HalfYearTerm(t) == ~IsNone(t) /\ t[1] > 0 /\ t[2] \in {1, 2}

\* C16 as stated: BPrice with no accrual dates, a positive coupon c, the
\* yield equal to c in the same unit and a term that is a positive multiple
\* of half a year gives 100.
C16_ParWhenYieldEqualsCoupon ==
    (/\ ValuationReturned
     /\ val_ret.fn = "BPrice"
     /\ IsNone(val_call.accrual)
     /\ HalfYearTerm(val_call.yrstomat)
     /\ val_call.cpn[1] > 0
     /\ val_call.yield_ = val_call.cpn) =>
        val_ret.value = <<100, 1>>


\* C17 as stated: when the ranking leaves fewer than three distinct
\* candidates (none included), calculate_quantities returns the ones it has
\* and does not raise.
C17_ShortResultReturnsWithoutRaising == pc # "UnboundLocalError"


(***************************************************************************)
(* compute_risk_metrics (risklimits.py 134-348).  The stress columns of an *)
(* order are kept per rung of the shock ladder: f_dur[s], f_Dv01[s] and    *)
(* stress_overlay[s] stand for the columns f_dur_<s>, f_Dv01_<s> and       *)
(* <s>_stress_overlay.  The accrual period the durations are computed with *)
(* runs from the previous coupon to the maturity date (settle is bound to  *)
(* the maturity date); the orders here are on bonds in their last coupon   *)
(* period, where it is 1.                                                  *)
(***************************************************************************)
MaxOrderQty == 2

Rungs == {"pos_point5", "neg_point5", "pos_pointoh5", "neg_pointoh5",
          "pos_pointoh1", "neg_pointoh1", "pos_pointohoh5", "neg_pointohoh5"}

RungShock(s) ==
    CASE s = "pos_point5" -> <<1, 2>>
      [] s = "neg_point5" -> <<-1, 2>>
      [] s = "pos_pointoh5" -> <<1, 20>>
      [] s = "neg_pointoh5" -> <<-1, 20>>
      [] s = "pos_pointoh1" -> <<1, 100>>
      [] s = "neg_pointoh1" -> <<-1, 100>>
      [] s = "pos_pointohoh5" -> <<1, 200>>
      [] s = "neg_pointohoh5" -> <<-1, 200>>

safe_duration(dur) == IF IsNone(dur) THEN FrInt(0) ELSE dur

\* approximate_duration of one leg at one rung, before safe_duration
LegDuration(leg, s) ==
    approximate_duration(leg.CTD_COUPON_RATE, leg.CTD_YTM, leg.IMP_YIELD, 2,
                         FrInt(1), RungShock(s))

\* the sixteen approximate_duration calls made for one order
OrderDurations(o) ==
    [A |-> [s \in Rungs |-> LegDuration(o.A, s)],
     B |-> [s \in Rungs |-> LegDuration(o.B, s)]]

\* one of the calls lets an exception escape
RiskRaises(dur) ==
    \E s \in Rungs : Raises(dur.A[s]) \/ Raises(dur.B[s])

\* the risk columns of one order, given what the calls returned
RiskColumns(o, dur) ==
    LET f_dur == [s \in Rungs |-> safe_duration(dur.A[s])]
        b_dur == [s \in Rungs |-> safe_duration(dur.B[s])]
        f_Dv01 == [s \in Rungs |->
                      FrMul(FrMul(FrMul(safe_duration(f_dur[s]), o.A.FUT_TPRICE),
                                  Fr(1, 10000)), FrInt(o.A.Q_Value))]
        b_Dv01 == [s \in Rungs |->
                      FrMul(FrMul(FrMul(safe_duration(b_dur[s]), o.B.FUT_TPRICE),
                                  Fr(1, 10000)), FrInt(o.B.Q_Value))]
        quantity == FrInt(o.PairsLCM)
        exposureA == FrMul(FrMul(quantity, FrInt(o.A.FUT_MULTIPLIER)),
                           FrInt(o.A.Q_Value))
        exposureB == FrMul(FrMul(quantity, FrInt(o.B.FUT_MULTIPLIER)),
                           FrInt(o.B.Q_Value))
    IN  [A_Volatility |-> o.A.Volatility,
         B_Volatility |-> o.B.Volatility,
         f_dur |-> [s \in Rungs |-> FrDiv(f_dur[s], o.A.CTD_CF)],
         b_dur |-> [s \in Rungs |-> FrDiv(b_dur[s], o.B.CTD_CF)],
         f_Dv01 |-> f_Dv01,
         b_Dv01 |-> b_Dv01,
         stress_overlay |-> [s \in Rungs |-> FrAdd(f_Dv01[s], b_Dv01[s])],
         VAR |-> FrAdd(FrMul(exposureA, o.A.Volatility),
                       FrMul(exposureB, o.B.Volatility)),
         POS_RISK |-> FrAdd(FrMul(FrMul(exposureA, o.A.FUT_TPRICE), o.A.Volatility),
                            FrMul(FrMul(exposureB, o.B.FUT_TPRICE), o.B.Volatility)),
         NET_OVERLAY |-> FrAdd(FrMul(FrMul(o.A.FUT_DV01, exposureA),
                                     FrInt(o.A.Q_sign)),
                               FrMul(FrMul(o.B.FUT_DV01, exposureB),
                                     FrInt(o.B.Q_sign))),
         NET_VALUE |-> FrAdd(FrMul(exposureA, o.A.FUT_TPRICE),
                             FrMul(exposureB, o.B.FUT_TPRICE))]

(***************************************************************************)
(* SpecRisk: compute_risk_metrics run on config.ORDERS, three candidates   *)
(* over three contracts.                                                   *)
(***************************************************************************)
RiskContracts ==
    [CTD_COUPON_RATE : {<<4, 1>>}, CTD_YTM : {<<0, 1>>, <<1, 2>>},
     IMP_YIELD : {NoneVal, <<1, 25>>, <<1, 2>>}, CTD_CF : {<<4, 5>>},
     FUT_TPRICE : {<<125, 1>>}, FUT_MULTIPLIER : {1000},
     FUT_DV01 : {<<1, 100>>}, Volatility : {<<0, 1>>, <<1, 100>>}]

ThirdContracts ==
    {c \in RiskContracts : c.IMP_YIELD = <<1, 25>> /\ c.Volatility = <<0, 1>>}

RiskLeg(c, q, sign) == c @@ [Q_Value |-> q, Q_sign |-> sign]

RiskOrder(front, back, qa, qb, sign, lcm) ==
    [A |-> RiskLeg(front, qa, -sign), B |-> RiskLeg(back, qb, sign),
     PairsLCM |-> lcm]

InitRisk ==
    /\ pc = "orders"
    /\ \E c1 \in RiskContracts, c2 \in RiskContracts, c3 \in ThirdContracts :
       \E qa \in 1..MaxOrderQty, qb \in 1..MaxOrderQty, sign \in {-1, 1} :
          ORDERS = <<RiskOrder(c1, c2, qa, qb, sign, 1),
                     RiskOrder(c2, c1, qb, qa, -sign, 1),
                     RiskOrder(c1, c3, qa, qb, sign, 2)>>
    /\ HEDGES = <<>> /\ HEDGES_Combos = <<>>
    /\ row = Null /\ limit = Null /\ qty = Null
    /\ hedges_df = <<>> /\ usts = <<>> /\ removed = {}
    /\ val_call = Null /\ val_ret = Null
    /\ updated_ORDERS = <<>> /\ submitted = <<>> /\ first_run = <<>>
    /\ ServicesIdle

ComputeRiskMetrics ==
    /\ pc = "orders"
    /\ \E dur \in {[k \in 1..Len(ORDERS) |-> OrderDurations(ORDERS[k])]} :
          IF \E k \in 1..Len(ORDERS) : RiskRaises(dur[k])
          THEN /\ pc' = "TypeError"
               /\ UNCHANGED updated_ORDERS
          ELSE /\ updated_ORDERS' =
                     [k \in 1..Len(ORDERS) |->
                         ORDERS[k] @@ RiskColumns(ORDERS[k], dur[k])]
               /\ pc' = "risk"
    /\ UNCHANGED <<sizingVars, ctdVars, pairVars, valVars, submitted, first_run, svcVars>>

NextRisk == ComputeRiskMetrics

SpecRisk == InitRisk /\ [][NextRisk]_vars


(***************************************************************************)
(* Claims about the risk overlay (SpecRisk).                               *)
(***************************************************************************)
FrAbs(x) == <<Abs(x[1]), x[2]>>

\* the shock ladder of the specification: +/-0.005, +/-0.05, +/-0.5
LadderRungs == Rungs \ {"pos_pointoh1", "neg_pointoh1"}

\* duration * theoretical price * 0.0001 * signed quantity of one leg
LegStressDv01(leg, s) ==
    FrMul(FrMul(FrMul(safe_duration(LegDuration(leg, s)), leg.FUT_TPRICE),
                Fr(1, 10000)),
          FrInt(leg.Q_Value * leg.Q_sign))

ScenarioOverlay(o, s) == FrAdd(LegStressDv01(o.A, s), LegStressDv01(o.B, s))

\* |overlay| > 10% of the net notional
Breaches(o, s) ==
    ~FrLessEq(FrAbs(ScenarioOverlay(o, s)), FrDiv(o.NET_VALUE, FrInt(10)))

\* C18 as stated: every order compute_risk_metrics gives back carries a
\* breach flag, set exactly when for some rung of the ladder the absolute
\* DV01 overlay of the two legs exceeds 10% of the order's net notional.
C18_BreachFlagPerOrder ==
    pc = "risk" =>
        \A k \in 1..Len(updated_ORDERS) :
            LET o == updated_ORDERS[k]
            IN  /\ "breach" \in DOMAIN o
                /\ o.breach <=> \E s \in LadderRungs : Breaches(o, s)


(***************************************************************************)
(* SpecLoop: business_logic_function (business_logic.py 14-52).  An        *)
(* iteration that finds the snapshot populated runs cf_ctd_main,           *)
(* run_fixed_income_calculation and calculate_quantities_with_sma and then *)
(* calls orderRequest; nothing in the loop catches an exception, so a      *)
(* raise ends the loop.                                                    *)
(***************************************************************************)
InitLoop ==
    /\ pc = "loop"
    /\ HEDGES = <<>> /\ HEDGES_Combos = <<>> /\ ORDERS = <<>>
    /\ row = Null /\ limit = Null /\ qty = Null
    /\ hedges_df = <<>> /\ usts = <<>> /\ removed = {}
    /\ val_call = Null /\ val_ret = Null
    /\ updated_ORDERS = <<>> /\ submitted = <<>> /\ first_run = <<>>
    /\ ServicesIdle

\* config.USTs or config.FUTURES is still empty: the iteration only sleeps
SleepUnpopulated ==
    /\ pc = "loop"
    /\ UNCHANGED vars

\* the snapshot is populated: cf_ctd_main gives the HEDGES rows
CfCtdMain ==
    /\ pc = "loop"
    /\ \E n \in 1..MaxRows : \E cs \in [1..n -> ContractInputs] :
       \E bonds \in BondTables :
          /\ Len(HedgeRows(cs, bonds, 1)) <= MaxRows
          /\ HEDGES' = HedgeRows(cs, bonds, 1)
    /\ pc' = "kpis"
    /\ UNCHANGED <<HEDGES_Combos, ORDERS, sizingVars, ctdVars, valVars, tailVars, svcVars>>

\* orderRequest([config.ORDERS]): the argument is a list holding the table,
\* and updated_ORDERS.empty on a list raises AttributeError
OrderRequest ==
    /\ pc = "orders"
    /\ submitted' = <<ORDERS>>
    /\ pc' = "AttributeError"
    /\ UNCHANGED <<sizingVars, ctdVars, pairVars, valVars, updated_ORDERS, first_run, svcVars>>

NextLoop ==
    \/ SleepUnpopulated
    \/ CfCtdMain
    \/ RunFixedIncomeCalculation
    \/ CalculateQuantitiesWithSma
    \/ OrderRequest

SpecLoop == InitLoop /\ [][NextLoop]_vars


(***************************************************************************)
(* Claims about the loop (SpecLoop).                                       *)
(***************************************************************************)
\* config.updated_ORDERS holds these candidates, each with its risk columns
RiskComputedFor(orders) ==
    /\ Len(updated_ORDERS) = Len(orders)
    /\ \A k \in 1..Len(orders) :
          /\ "stress_overlay" \in DOMAIN updated_ORDERS[k]
          /\ \A f \in DOMAIN orders[k] :
                /\ f \in DOMAIN updated_ORDERS[k]
                /\ updated_ORDERS[k][f] = orders[k][f]

\* C19 as stated: whenever orderRequest has been called in an iteration,
\* compute_risk_metrics has been computed before it for the candidates it
\* was handed, so each record passed on carries its risk columns.
C19_RiskComputedBeforeOrderRequest ==
    submitted # <<>> => RiskComputedFor(submitted[1])


(***************************************************************************)
(* SpecRerun: the pipeline run twice on one snapshot.  The leg columns of  *)
(* a HEDGES row that calculate_quantities_with_sma derives from            *)
(* datetime.now() are Days (maturity minus now) and DirtyPrice (CTD price  *)
(* plus the interest accrued up to now); the second run sees them as they  *)
(* are `elapsed` days after the first, with no coupon date in between.     *)
(***************************************************************************)
CouponRate == 5
ClockShifts == {0, 73}

\* accrued_interest: (coupon / 2) * (days_accrued / 182.5)
accrued_interest(coupon, days_accrued) ==
    FrMul(Fr(coupon, 2), Fr(2 * days_accrued, 365))

\* a HEDGES row as the run sees it `elapsed` days later
AsOfLater(h, elapsed) ==
    IF h.CTD_CONID = Null THEN h
    ELSE [h EXCEPT !.Days = @ - elapsed,
                   !.DirtyPrice = @ + accrued_interest(CouponRate, elapsed)[1]]

\* the first run has emitted; the same snapshot is run again
StartSecondRun ==
    /\ pc = "orders"
    /\ first_run = <<>>
    /\ \E elapsed \in ClockShifts :
          /\ first_run' = <<[limit |-> limit, ORDERS |-> ORDERS,
                             elapsed |-> elapsed]>>
          /\ HEDGES' = [k \in 1..Len(HEDGES) |-> AsOfLater(HEDGES[k], elapsed)]
    /\ HEDGES_Combos' = <<>>
    /\ pc' = "kpis"
    /\ UNCHANGED <<ORDERS, sizingVars, ctdVars, valVars, updated_ORDERS, submitted, svcVars>>

NextRerun ==
    \/ RunFixedIncomeCalculation
    \/ CalculateQuantitiesWithSma
    \/ StartSecondRun

SpecRerun == InitPairs /\ [][NextRerun]_vars


(***************************************************************************)
(* Claims about two runs on one snapshot (SpecRerun).                      *)
(***************************************************************************)
\* what a candidate is to its consumer: legs, quantities, lot and signs
CandidateOf(r) ==
    [legs |-> LegIdents(r), A_Q_Value |-> r.A_Q_Value, B_Q_Value |-> r.B_Q_Value,
     PairsLCM |-> r.PairsLCM, A_Q_sign |-> r.A_Q_sign, B_Q_sign |-> r.B_Q_sign]
Candidates(orders) == [k \in 1..Len(orders) |-> CandidateOf(orders[k])]

\* both runs have emitted, with the same margin
SecondRunEmitted ==
    /\ first_run # <<>>
    /\ pc = "orders"
    /\ limit = first_run[1].limit

\* C20 as stated: two runs on the same snapshot with the same margin emit
\* the same candidates in the same order with the same quantities and
\* signs, whatever the time each run executes at.
C20_SameSnapshotSameCandidates ==
    SecondRunEmitted => Candidates(ORDERS) = Candidates(first_run[1].ORDERS)

(***************************************************************************)
(* SpecRefresh: refresh_data (cf_ctd.py 48-66) and                         *)
(* MarketData.get_index_market_data (market_data.py 25-43) over the shared *)
(* tables config.USTs and config.FUTURES.  A table is its column labels,   *)
(* its index, the dtype of its conid column and its rows; a frame held by  *)
(* the refresh is either the shared table itself ("config": pandas hands   *)
(* the same object on) or a table of its own ("local": pd.merge builds a   *)
(* new one).                                                               *)
(***************************************************************************)
NaT == <<"NaT", 0>>
NaN == <<"NaN", 0>>

\* maturity_date cells as read_csv gives them: text of a date, or text
\* that is no date
MaturityCells == {<<"str", 1>>, <<"str", 2>>, <<"str", -1>>}

\* pd.to_datetime(cell, errors='coerce')
to_datetime(cell) ==
    IF cell[1] = "Timestamp" \/ cell[1] = "NaT" THEN cell
    ELSE IF cell[1] = "str" /\ cell[2] >= 0 THEN <<"Timestamp", cell[2]>>
    ELSE NaT

\* pd.to_numeric(conid, errors='coerce').astype('Int64') on a whole column
ConidInt64(t) == [t EXCEPT !.conid_dtype = "Int64"]

\* str.lower() of a column label
Lower(label) ==
    CASE label = "Conid" -> "conid"
      [] label = "Maturity_Date" -> "maturity_date"
      [] label = "Expiry" -> "expiry"
      [] OTHER -> label

LowerColumns(t) == [t EXCEPT !.columns = [k \in DOMAIN @ |-> Lower(@[k])]]

\* ust_updated['maturity_date'] = pd.to_datetime(...)
MaturityToDatetime(t) ==
    [t EXCEPT !.rows = [k \in DOMAIN @ |->
                           [@[k] EXCEPT !.maturity_date = to_datetime(@)]]]

\* the index files as main.py loads them (read_csv: RangeIndex, int64 conid)
UstTables ==
    {[columns |-> <<"conid", "maturity_date">>, index |-> "RangeIndex",
      conid_dtype |-> "int64", rows |-> rs] :
        rs \in UNION {[1..n -> [conid : {1}, maturity_date : MaturityCells]] :
                         n \in 0..MaxTableRows}}
FutTables ==
    {[columns |-> <<"conid", "expiry">>, index |-> "RangeIndex",
      conid_dtype |-> "int64", rows |-> rs] :
        rs \in UNION {[1..n -> [conid : {2}, expiry : {1, 2}]] : n \in 0..1}}

\* what the snapshot endpoint answered over all batches: nothing (every
\* batch failed), entries without 'conid', entries with 'conid' alone, or
\* entries with a last price
MarketDataShapes ==
    {[conid |-> FALSE, conids |-> {}, fields |-> {}, entries |-> 0],
     [conid |-> FALSE, conids |-> {}, fields |-> {"last_price"}, entries |-> 1],
     [conid |-> TRUE, conids |-> {1}, fields |-> {}, entries |-> 1],
     [conid |-> TRUE, conids |-> {1}, fields |-> {"last_price"}, entries |-> 1]}

\* market_data_df.empty or 'conid' not in market_data_df.columns
SkipsMerge(md) == md.entries = 0 \/ ~md.conid

\* new_columns of extract_market_data_fields (the index files carry no
\* market-data column, so existing_columns is empty and lines 148-159 are
\* not entered)
new_columns(md, t) == md.fields \ {t.columns[k] : k \in DOMAIN t.columns}

\* pd.merge(index, market_data_df[new_col_list], how='left', on='conid'):
\* a table of its own, NaN where the answers name no such conid
Merged(t, md) ==
    [t EXCEPT !.columns = @ \o <<"last_price">>,
              !.rows = [k \in DOMAIN @ |->
                           @[k] @@ [last_price |->
                                       IF @[k].conid \in md.conids
                                       THEN <<"float", 100>> ELSE NaN]]]

\* update_ust_price: price = last_price where the frame has that column
update_ust_price(t) ==
    IF \E k \in DOMAIN t.columns : t.columns[k] = "last_price"
    THEN [t EXCEPT !.columns = @ \o <<"price">>,
                   !.rows = [k \in DOMAIN @ |->
                                @[k] @@ [price |-> @[k].last_price]]]
    ELSE t

\* the frame a name of the refresh stands for
Frame(ref, shared) == IF ref.is = "config" THEN shared ELSE ref.table

InitRefresh ==
    /\ pc = "refresh"
    /\ USTs \in UstTables
    /\ FUTURES \in FutTables
    /\ market_data = <<>> /\ ust_updated = <<>> /\ fut_updated = <<>>
    /\ IdleExceptRefresh

\* get_index_market_data, lines 33-34: with an empty table the method
\* returns None and refresh_data fails to unpack it; otherwise
\* get_market_data collects the answers
GetMarketData ==
    /\ pc = "refresh"
    /\ IF USTs.rows = <<>> \/ FUTURES.rows = <<>>
       THEN /\ pc' = "TypeError"
            /\ UNCHANGED market_data
       ELSE /\ \E md \in MarketDataShapes : market_data' = <<md>>
            /\ pc' = "extract"
    /\ UNCHANGED <<USTs, FUTURES, ust_updated, fut_updated>>
    /\ UNCHANGED exceptRefresh

\* get_index_market_data, lines 38-43: extract_market_data_fields on the
\* shared tables themselves, then the price columns of the frames it gave
ExtractMarketDataFields ==
    /\ pc = "extract"
    /\ LET md == market_data[1]
       IN  IF SkipsMerge(md)
           THEN /\ UNCHANGED <<USTs, FUTURES>>
                /\ ust_updated' = <<[is |-> "config"]>>
                /\ fut_updated' = <<[is |-> "config"]>>
           ELSE /\ USTs' = ConidInt64(USTs)
                /\ FUTURES' = ConidInt64(FUTURES)
                /\ IF new_columns(md, USTs) = {}
                   THEN /\ ust_updated' = <<[is |-> "config"]>>
                        /\ fut_updated' = <<[is |-> "config"]>>
                   ELSE /\ ust_updated' =
                              <<[is |-> "local",
                                 table |-> update_ust_price(
                                              Merged(ConidInt64(USTs), md))]>>
                        /\ fut_updated' =
                              <<[is |-> "local",
                                 table |-> Merged(ConidInt64(FUTURES), md)]>>
    /\ pc' = "lower"
    /\ UNCHANGED market_data
    /\ UNCHANGED exceptRefresh

\* refresh_data, lines 55-66, on the frames get_index_market_data returned
LowerAndParseDates ==
    /\ pc = "lower"
    /\ LET u == MaturityToDatetime(LowerColumns(Frame(ust_updated[1], USTs)))
           f == LowerColumns(Frame(fut_updated[1], FUTURES))
       IN  /\ IF ust_updated[1].is = "config"
              THEN USTs' = u /\ UNCHANGED ust_updated
              ELSE ust_updated' = <<[is |-> "local", table |-> u]>>
                   /\ UNCHANGED USTs
           /\ IF fut_updated[1].is = "config"
              THEN FUTURES' = f /\ UNCHANGED fut_updated
              ELSE fut_updated' = <<[is |-> "local", table |-> f]>>
                   /\ UNCHANGED FUTURES
    /\ pc' = "refreshed"
    /\ UNCHANGED market_data
    /\ UNCHANGED exceptRefresh

\* the refresh is given up between two of its steps
AbandonRefresh ==
    /\ pc \in {"extract", "lower"}
    /\ pc' = "abandoned"
    /\ UNCHANGED <<refreshVars, exceptRefresh>>

NextRefresh ==
    \/ GetMarketData
    \/ ExtractMarketDataFields
    \/ LowerAndParseDates
    \/ AbandonRefresh

SpecRefresh == InitRefresh /\ [][NextRefresh]_vars


(***************************************************************************)
(* Claims about the market-data refresh (SpecRefresh).                     *)
(***************************************************************************)
\* two tables with the same column labels, index and cell values
SameTable(a, b) ==
    /\ a.columns = b.columns
    /\ a.index = b.index
    /\ a.rows = b.rows

\* C21 as stated: no step of a market-data refresh, completed or given up
\* part-way, changes the columns, the index or the values of the shared
\* tables config.USTs and config.FUTURES.
C21_SharedTablesUnchanged ==
    [][SameTable(USTs, USTs') /\ SameTable(FUTURES, FUTURES')]_vars

(***************************************************************************)
(* SpecAccrual: accrued_interest(coupon, mat_date, today)                  *)
(* (KPIs2_Orders.py 25-30) over calendar dates.  A date is a record        *)
(* [year, month, day]; the time of day of `today` does not change any      *)
(* comparison or day count against a midnight and is left out.             *)
(***************************************************************************)
\* the settlement dates drawn lie in LastYear and the year before it
LastYear == 2025

IsLeap(y) == y % 4 = 0 /\ (y % 100 # 0 \/ y % 400 = 0)

DaysInMonth(y, m) ==
    IF m = 2 THEN (IF IsLeap(y) THEN 29 ELSE 28)
    ELSE IF m \in {4, 6, 9, 11} THEN 30 ELSE 31

DaysInYear(y) == IF IsLeap(y) THEN 366 ELSE 365

RECURSIVE DaysBeforeYear(_)
DaysBeforeYear(y) ==
    IF y <= LastYear - 3 THEN 0 ELSE DaysBeforeYear(y - 1) + DaysInYear(y - 1)

RECURSIVE DaysBeforeMonth(_, _)
DaysBeforeMonth(y, m) ==
    IF m = 1 THEN 0 ELSE DaysBeforeMonth(y, m - 1) + DaysInMonth(y, m - 1)

\* the day number of a date from a fixed day before every date drawn
Ordinal(d) == DaysBeforeYear(d.year) + DaysBeforeMonth(d.year, d.month) + d.day

IsDate(y, m, d) == d >= 1 /\ d <= DaysInMonth(y, m)

Min(a, b) == IF a <= b THEN a ELSE b

\* d - pd.DateOffset(months=6): the same day six months earlier, clipped
\* to the last day of that month
MinusSixMonths(d) ==
    LET y == IF d.month > 6 THEN d.year ELSE d.year - 1
        m == IF d.month > 6 THEN d.month - 6 ELSE d.month + 6
    IN  [year |-> y, month |-> m, day |-> Min(d.day, DaysInMonth(y, m))]

\* lines 26-28 (the caller has checked that this year has such a day)
last_coupon(mat_date, today) ==
    LET this_year == [year |-> today.year, month |-> mat_date.month,
                      day |-> mat_date.day]
    IN  IF Ordinal(this_year) > Ordinal(today) THEN MinusSixMonths(this_year)
        ELSE this_year

\* line 29
days_accrued(mat_date, today) ==
    Ordinal(today) - Ordinal(last_coupon(mat_date, today))

\* the month and day of a maturity: the 15th or the last day of a month
MaturityDays ==
    {x \in [month : 1..12, day : {15, 28, 29, 30, 31}] :
        \/ x.day = 15
        \/ x.day = DaysInMonth(LastYear - 1, x.month)
        \/ x.day = DaysInMonth(LastYear, x.month)}

SettlementDates ==
    [year : {LastYear - 1, LastYear}, month : 1..12, day : {1, 15, 28}]

AccrualCalls ==
    [fn : {"accrued_interest"}, coupon : {CouponRate},
     mat_date : MaturityDays, today : SettlementDates]

InitAccrual ==
    /\ pc = "call"
    /\ val_call \in AccrualCalls
    /\ val_ret = Null
    /\ row = Null /\ limit = Null /\ qty = Null
    /\ hedges_df = <<>> /\ usts = <<>> /\ removed = {}
    /\ HEDGES = <<>> /\ HEDGES_Combos = <<>> /\ ORDERS = <<>>
    /\ updated_ORDERS = <<>> /\ submitted = <<>> /\ first_run = <<>>
    /\ ServicesIdle

\* accrued_interest: pd.Timestamp(year, month, day) raises ValueError when
\* the settlement year has no such day
CallAccruedInterest ==
    /\ pc = "call"
    /\ LET c == val_call
       IN  IF ~IsDate(c.today.year, c.mat_date.month, c.mat_date.day)
           THEN /\ pc' = "ValueError"
                /\ UNCHANGED val_ret
           ELSE /\ val_ret' =
                      [fn |-> "accrued_interest",
                       last_coupon |-> last_coupon(c.mat_date, c.today),
                       days_accrued |-> days_accrued(c.mat_date, c.today),
                       value |-> accrued_interest(
                                    c.coupon, days_accrued(c.mat_date, c.today))]
                /\ pc' = "returned"
    /\ UNCHANGED <<val_call, sizingVars, ctdVars, pairVars, tailVars, svcVars>>

NextAccrual == CallAccruedInterest

SpecAccrual == InitAccrual /\ [][NextAccrual]_vars


(***************************************************************************)
(* Claims about accrued interest (SpecAccrual).                            *)
(***************************************************************************)
\* the date is the maturity's month and day moved by a multiple of six
\* months (a month-end day clipped to the month)
IsSemiannualCouponDate(d, mat_date) ==
    /\ (d.month - mat_date.month) % 6 = 0
    /\ \/ d.day = mat_date.day
       \/ d.day = DaysInMonth(d.year, d.month) /\ d.day < mat_date.day

PlusSixMonths(d) ==
    LET y == IF d.month > 6 THEN d.year + 1 ELSE d.year
        m == IF d.month > 6 THEN d.month - 6 ELSE d.month + 6
    IN  [year |-> y, month |-> m, day |-> Min(d.day, DaysInMonth(y, m))]

\* C22 as stated: for every maturity and settlement date accrued_interest
\* gives a value, anchored on a semiannual coupon date that is not after
\* settlement and less than six months before it; the accrued days lie in
\* 0..184 and the accrued interest is at most one semiannual coupon.
C22_AccrualAnchor ==
    /\ pc # "ValueError"
    /\ pc = "returned" =>
          /\ IsSemiannualCouponDate(val_ret.last_coupon, val_call.mat_date)
          /\ Ordinal(val_ret.last_coupon) <= Ordinal(val_call.today)
          /\ Ordinal(val_call.today) < Ordinal(PlusSixMonths(val_ret.last_coupon))
          /\ val_ret.days_accrued \in 0..184
          /\ FrLessEq(val_ret.value, Fr(val_call.coupon, 2))

(***************************************************************************)
(* SpecBucket: the global LeakyBucket (leaky_bucket.py 15-54) used by      *)
(* several threads.  Time is counted in ticks, TicksPerSecond to a second; *)
(* the clock moves between any two steps of any thread.  A thread inside   *)
(* acquire() goes through `with self.lock`, _leak(), the test of           *)
(* self.tokens, the load and the store of `self.tokens -= 1`, and the exit *)
(* of the with-block; `reg` is the value the thread holds between the load *)
(* and the store.                                                          *)
(***************************************************************************)
capacity == 49
leak_rate == 1
TicksPerSecond == 2
MaxTick == 4
Threads == {1, 2}

\* time_elapsed > self.leak_rate
LeakDue(current_time) ==
    current_time - last_checked > leak_rate * TicksPerSecond

\* min(self.capacity, self.tokens + int(time_elapsed * self.leak_rate))
Refilled(current_time) ==
    Min(capacity,
        tokens + ((current_time - last_checked) * leak_rate) \div TicksPerSecond)

\* a with-block that any thread may enter at any time
LockIgnored(t) == TRUE

\* `with self.lock`: the lock is free
LockFree(t) == lock = 0

InitBucket ==
    /\ pc = "bucket"
    /\ now = 0
    /\ tokens = capacity
    /\ last_checked = 0
    /\ lock = 0
    /\ thread = [t \in Threads |-> [pc |-> "idle", reg |-> 0, ret |-> FALSE]]
    /\ granted = [k \in 1..(leak_rate * TicksPerSecond) |-> 0]
    /\ IdleExceptBucket

\* the clock moves on by one tick
Tick ==
    /\ pc = "bucket"
    /\ now < MaxTick
    /\ now' = now + 1
    /\ granted' = Tail(granted) \o <<0>>
    /\ UNCHANGED <<pc, tokens, last_checked, lock, thread>>
    /\ UNCHANGED exceptBucket

\* acquire(), line 35: the thread enters the with-block
Enter(t) ==
    /\ pc = "bucket"
    /\ thread[t].pc = "idle"
    /\ LockFree(t)
    /\ lock' = t
    /\ thread' = [thread EXCEPT ![t].pc = "leak"]
    /\ UNCHANGED <<pc, now, tokens, last_checked, granted>>
    /\ UNCHANGED exceptBucket

\* _leak(), lines 25-31
Leak(t) ==
    /\ pc = "bucket"
    /\ thread[t].pc = "leak"
    /\ IF LeakDue(now)
       THEN /\ tokens' = Refilled(now)
            /\ last_checked' = now
       ELSE UNCHANGED <<tokens, last_checked>>
    /\ thread' = [thread EXCEPT ![t].pc = "test"]
    /\ UNCHANGED <<pc, now, lock, granted>>
    /\ UNCHANGED exceptBucket

\* line 38: if self.tokens > 0
TestTokens(t) ==
    /\ pc = "bucket"
    /\ thread[t].pc = "test"
    /\ thread' = [thread EXCEPT ![t].pc = IF tokens > 0 THEN "load" ELSE "refuse"]
    /\ UNCHANGED <<pc, now, tokens, last_checked, lock, granted>>
    /\ UNCHANGED exceptBucket

\* line 39, first half: the value of self.tokens is read
LoadTokens(t) ==
    /\ pc = "bucket"
    /\ thread[t].pc = "load"
    /\ thread' = [thread EXCEPT ![t].pc = "store", ![t].reg = tokens]
    /\ UNCHANGED <<pc, now, tokens, last_checked, lock, granted>>
    /\ UNCHANGED exceptBucket

\* line 39, second half, and line 40: the value less one is written and
\* the call gives True
StoreTokens(t) ==
    /\ pc = "bucket"
    /\ thread[t].pc = "store"
    /\ tokens' = thread[t].reg - 1
    /\ thread' = [thread EXCEPT ![t].pc = "exit", ![t].ret = TRUE]
    /\ granted' = [granted EXCEPT ![Len(granted)] = @ + 1]
    /\ UNCHANGED <<pc, now, last_checked, lock>>
    /\ UNCHANGED exceptBucket

\* lines 42-45: the call gives False
Refuse(t) ==
    /\ pc = "bucket"
    /\ thread[t].pc = "refuse"
    /\ thread' = [thread EXCEPT ![t].pc = "exit", ![t].ret = FALSE]
    /\ UNCHANGED <<pc, now, tokens, last_checked, lock, granted>>
    /\ UNCHANGED exceptBucket

\* the with-block is left: the lock is released and the call returns
Exit(t) ==
    /\ pc = "bucket"
    /\ thread[t].pc = "exit"
    /\ lock' = IF lock = t THEN 0 ELSE lock
    /\ thread' = [thread EXCEPT ![t].pc = "idle", ![t].reg = 0]
    /\ UNCHANGED <<pc, now, tokens, last_checked, granted>>
    /\ UNCHANGED exceptBucket

EnterSome == \E t \in Threads : Enter(t)
LeakSome == \E t \in Threads : Leak(t)
TestSome == \E t \in Threads : TestTokens(t)
LoadSome == \E t \in Threads : LoadTokens(t)
StoreSome == \E t \in Threads : StoreTokens(t)
RefuseSome == \E t \in Threads : Refuse(t)
ExitSome == \E t \in Threads : Exit(t)

NextBucket ==
    \/ Tick
    \/ EnterSome
    \/ LeakSome
    \/ TestSome
    \/ LoadSome
    \/ StoreSome
    \/ RefuseSome
    \/ ExitSome

SpecBucket == InitBucket /\ [][NextBucket]_vars


(***************************************************************************)
(* Claims about the rate limiter (SpecBucket).                             *)
(***************************************************************************)
RECURSIVE SumSeq(_)
SumSeq(s) == IF s = <<>> THEN 0 ELSE Head(s) + SumSeq(Tail(s))

\* C23 as stated: over any window of length leak_rate (the last
\* leak_rate * TicksPerSecond ticks, the present one included) at most
\* capacity calls of acquire have returned True.
C23_AtMostCapacityPerWindow ==
    pc = "bucket" => SumSeq(granted) <= capacity

\* C24: whatever the interleaving of the threads' acquire calls, tokens
\* stays within 0..capacity; a call about to return True has brought
\* tokens to one less than the value it read, and a call about to return
\* False leaves tokens at zero.
C24_TokensWithinBoundsAndAtomic ==
    pc = "bucket" =>
        /\ tokens >= 0 /\ tokens <= capacity
        /\ \A t \in Threads :
              thread[t].pc = "exit" =>
                  IF thread[t].ret THEN tokens = thread[t].reg - 1
                  ELSE tokens = 0

\* one thread is about to return False while the other, which was given
\* True before, is waiting for the lock
C24_Witness ==
    /\ pc = "bucket"
    /\ \E t \in Threads, u \in Threads :
          /\ t # u
          /\ thread[t].pc = "exit" /\ ~thread[t].ret /\ tokens = 0
          /\ thread[u].pc = "idle" /\ thread[u].ret

(***************************************************************************)
(* SpecSlot: OrdersLeakyBucket.wait_for_slot (leaky_bucket_orders.py       *)
(* 31-67) as business_logic_function calls it before a run.  Each poll     *)
(* first takes a token from the global LeakyBucket (here used by this one  *)
(* thread, so acquire() is a single step), then asks the orders endpoint,  *)
(* which answers with some number of active orders or fails.               *)
(***************************************************************************)
ACTIVE_ORDERS_LIMIT == 5
poll_interval == 1
MaxActive == 6

\* what _get_active_orders_count can give: None after a RequestException,
\* else the number of orders in an active status
PollAnswers == {Null} \cup 0..MaxActive

\* a poll that ignores its own failure
SlotAvailableIgnoringFailure(count) == count < ACTIVE_ORDERS_LIMIT

\* lines 60-63: not (active_count is None) and active_count < self.max_orders
SlotAvailable(count) == count # Null /\ count < ACTIVE_ORDERS_LIMIT

\* self.tokens after _leak() at the present time
TokensAfterLeak == IF LeakDue(now) THEN Refilled(now) ELSE tokens

InitSlot ==
    /\ pc = "wait_for_token"
    /\ now = 0 /\ tokens = capacity /\ last_checked = 0
    /\ lock = 0 /\ thread = <<>> /\ granted = <<>>
    /\ active_count = Null /\ wake_at = 0
    /\ IdleExceptSlot

\* the clock moves on by one tick
ClockTick ==
    /\ pc \in {"wait_for_token", "request", "sleep"}
    /\ now < MaxTick
    /\ now' = now + 1
    /\ UNCHANGED <<pc, tokens, last_checked, lock, thread, granted, slotVars>>
    /\ UNCHANGED exceptSlot

\* leaky_bucket.wait_for_token(), line 39: one acquire(); when it gives
\* False the thread sleeps and tries again
WaitForToken ==
    /\ pc = "wait_for_token"
    /\ tokens' = IF TokensAfterLeak > 0 THEN TokensAfterLeak - 1 ELSE TokensAfterLeak
    /\ last_checked' = IF LeakDue(now) THEN now ELSE last_checked
    /\ pc' = IF TokensAfterLeak > 0 THEN "request" ELSE "wait_for_token"
    /\ UNCHANGED <<now, lock, thread, granted, slotVars>>
    /\ UNCHANGED exceptSlot

\* lines 41-51 and 59-67: the endpoint answers and wait_for_slot either
\* returns or goes to sleep for poll_interval
PollActiveOrders ==
    /\ pc = "request"
    /\ \E answer \in PollAnswers :
          /\ active_count' = answer
          /\ IF SlotAvailable(answer)
             THEN /\ pc' = "returned"
                  /\ UNCHANGED wake_at
             ELSE /\ pc' = "sleep"
                  /\ wake_at' = now + poll_interval * TicksPerSecond
    /\ UNCHANGED <<bucketVars, exceptSlot>>

\* time.sleep(self.poll_interval) is over: the next poll starts
WakeUp ==
    /\ pc = "sleep"
    /\ now >= wake_at
    /\ pc' = "wait_for_token"
    /\ UNCHANGED <<bucketVars, slotVars, exceptSlot>>

NextSlot ==
    \/ ClockTick
    \/ WaitForToken
    \/ PollActiveOrders
    \/ WakeUp

SpecSlot == InitSlot /\ [][NextSlot]_vars


(***************************************************************************)
(* Claims about the order slot (SpecSlot).                                 *)
(***************************************************************************)
\* C25: wait_for_slot returns only as the step that follows a poll which
\* succeeded and reported fewer than ACTIVE_ORDERS_LIMIT active orders; a
\* failed poll or a count at or above the limit sends it to sleep, and the
\* only thing that follows the sleep, once poll_interval has passed, is the
\* next poll.
C25_ReturnsOnlyBelowLimit ==
    /\ [](pc = "returned" =>
             active_count # Null /\ active_count < ACTIVE_ORDERS_LIMIT)
    /\ [](pc = "sleep" =>
             active_count = Null \/ active_count >= ACTIVE_ORDERS_LIMIT)
    /\ [][pc' = "returned" => pc = "request"]_vars
    /\ [][pc = "sleep" /\ pc' # "sleep" =>
             pc' = "wait_for_token" /\ now >= wake_at]_vars

\* the call has returned on a count just below the limit after having
\* slept at least once
C25_Witness ==
    /\ pc = "returned"
    /\ active_count = ACTIVE_ORDERS_LIMIT - 1
    /\ wake_at > 0

(***************************************************************************)
(* SpecOrders: orderRequest(updated_ORDERS) (orders.py 244-355) on a table *)
(* of candidates, and check_and_cancel_orders (orders.py 127-241), which   *)
(* orderRequest calls last.  Money is counted in cents.  The files         *)
(* pending_orders.csv and placed_orders.csv are written and never read     *)
(* and are left out.                                                       *)
(***************************************************************************)
MaxOrderId == 7
NewOrderId == MaxOrderId + 1
VOLUME == 1
PERCENT_PROFIT == 1

\* fees.get_commission_rate(volume), in cents
get_commission_rate(volume) ==
    IF 0 < volume /\ volume <= 1000 THEN 85
    ELSE IF 1001 < volume /\ volume <= 10000 THEN 65
    ELSE IF 10001 < volume /\ volume <= 20000 THEN 45
    ELSE IF 20001 < volume THEN 25
    ELSE 0

\* EXCHANGE_FEES.get(exchange, {}).get(symbol): exchange + reg + giveup in
\* cents, Null when the schedule has no such entry
SymbolFees(exchange, symbol) ==
    IF symbol \notin {"ZT", "ZF", "Z3N", "ZN", "TN"} THEN Null
    ELSE IF exchange = "CBOT"
         THEN (IF symbol \in {"ZN", "TN"} THEN 80 + 2 + 6 ELSE 65 + 2 + 6)
    ELSE IF exchange = "QBAlgo" THEN 75
    ELSE IF exchange = "SmallExch" THEN 15 + 2 + 2
    ELSE Null

\* fees.calculate_total_fees: a dict, or ValueError when a leg has no fees
calculate_total_fees(A_exchange, A_symbol, B_exchange, B_symbol) ==
    IF SymbolFees(A_exchange, A_symbol) = Null
       \/ SymbolFees(B_exchange, B_symbol) = Null
    THEN [type |-> "ValueError"]
    ELSE [type |-> "dict",
          A_fees |-> get_commission_rate(VOLUME) + SymbolFees(A_exchange, A_symbol),
          B_fees |-> get_commission_rate(VOLUME) + SymbolFees(B_exchange, B_symbol)]

\* value - x for a float `value`: defined for a number, TypeError for a dict
FloatMinus(value, x) ==
    IF x.type = "float" THEN [type |-> "float", v |-> value - x.v]
    ELSE IF x.type = "dict" THEN [type |-> "TypeError"]
    ELSE x

\* lines 260-264
value_after_fees(r) ==
    FloatMinus(r.PairsAdjNetBasis,
               calculate_total_fees(r.A_FUT_UNDERLYING_EXCHANGE, r.A_FUT_TICKER,
                                    r.B_FUT_UNDERLYING_EXCHANGE, r.B_FUT_TICKER))

\* the order of lines 284-298 for a row, as it is posted and recorded
OrderOf(r, id) ==
    [order_id |-> id, quantity |-> r.PairsLCM,
     pairs_net_basis |-> r.PairsAdjNetBasis, idx |-> r.idx]

\* the body of the loop for one row (lines 258-354): the exception of a
\* failed row is caught and the loop goes on; a row whose reduced value is
\* not positive is skipped; otherwise the order is posted and the loop ends
RowOutcome(r) ==
    LET vaf == value_after_fees(r)
    IN  IF vaf.type # "float" THEN "failed"
        ELSE IF vaf.v * PERCENT_PROFIT <= 0 THEN "skipped"
        ELSE "placed"

\* the index of the row the loop posts, 0 when it posts none
RECURSIVE PlacedIndex(_, _)
PlacedIndex(rows, k) ==
    IF k > Len(rows) THEN 0
    ELSE IF RowOutcome(rows[k]) = "placed" THEN k
    ELSE PlacedIndex(rows, k + 1)

\* ---- check_and_cancel_orders ----
OrderIds(rows) == {rows[k].order_id : k \in DOMAIN rows}

\* when the order with this id was placed, per placed_orders_runtime.csv
PlacedTimestamp(id) == (id + 2) % (MaxOrderId + 1)

\* lines 149-153: the placed orders less those the endpoint reports filled
WithoutFilled(placed, orders) ==
    IF placed = <<>> THEN placed
    ELSE SelectSeq(placed,
            LAMBDA p : ~\E k \in DOMAIN orders :
                          /\ orders[k].remainingQuantity = 0
                          /\ orders[k].order_id = p.order_id)

\* _clean_orders and line 170: the orders considered pending
Pending(orders) ==
    SelectSeq(orders,
        LAMBDA o : /\ o.status \notin {"Clear", "Cleared"}
                   /\ o.remainingQuantity # 0
                   /\ o.status \in {"Submitted", "PreSubmitted"})

\* the row of greatest timestamp
Newest(rows) ==
    CHOOSE r \in {rows[k] : k \in DOMAIN rows} :
        \A k \in DOMAIN rows : r.timestamp >= rows[k].timestamp

\* sort_values("timestamp") followed by the first row: a row of least
\* timestamp (timestamps of different orders differ)
Oldest(rows) ==
    CHOOSE r \in {rows[k] : k \in DOMAIN rows} :
        \A k \in DOMAIN rows : r.timestamp <= rows[k].timestamp

\* lines 204-209: the rows of df_placed whose id is a pending id that is
\* not a placed id
orphan_orders(df_placed, df_pending) ==
    SelectSeq(df_placed,
        LAMBDA p : p.order_id \in OrderIds(df_pending) \ OrderIds(df_placed))

\* cancel_order raises KeyError after the DELETE when the module's
\* placed_orders_runtime is still the DataFrame without columns
CancelRaises(runtime) == "order_id" \notin runtime.columns

\* lines 211-222: the pending orders after the orphan step
AfterOrphans(df_placed, df_pending, runtime) ==
    IF orphan_orders(df_placed, df_pending) # <<>> /\ Len(df_pending) >= 5
       /\ ~CancelRaises(runtime)
    THEN SelectSeq(df_pending,
            LAMBDA o : o.order_id #
                          Oldest(orphan_orders(df_placed, df_pending)).order_id)
    ELSE df_pending

\* lines 224-236: the pending orders that are placed orders, each with the
\* timestamp of its placed row
matched_pending(df_placed, df_pending) ==
    LET m == SelectSeq(df_pending, LAMBDA o : o.order_id \in OrderIds(df_placed))
    IN  [k \in DOMAIN m |->
            [order_id |-> m[k].order_id,
             timestamp |->
                (CHOOSE p \in {df_placed[j] : j \in DOMAIN df_placed} :
                    p.order_id = m[k].order_id).timestamp]]

\* the ids check_and_cancel_orders sends a cancel request for, in order
CancelPlan(placed, answer, runtime) ==
    LET df_placed == WithoutFilled(placed, answer.orders)
        df_pending == Pending(answer.orders)
        orphans == orphan_orders(df_placed, df_pending)
        matched == matched_pending(df_placed,
                                   AfterOrphans(df_placed, df_pending, runtime))
    IN  IF ~answer.ok \/ answer.orders = <<>> THEN <<>>
        ELSE IF df_placed = <<>>
             THEN [k \in DOMAIN df_pending |-> df_pending[k].order_id]
        ELSE IF Len(df_pending) < 5 THEN <<>>
        ELSE (IF orphans # <<>> THEN <<Oldest(orphans).order_id>> ELSE <<>>)
             \o (IF Len(matched) > 5 THEN <<Oldest(matched).order_id>> ELSE <<>>)

\* cancel_order, line 84, for every id cancelled
RuntimeAfterCancels(runtime, ids) ==
    IF CancelRaises(runtime) THEN runtime
    ELSE [runtime EXCEPT !.rows =
             SelectSeq(@, LAMBDA p : \A k \in DOMAIN ids : p.order_id # ids[k])]

\* ---- inputs ----
CandidateRows ==
    [PairsAdjNetBasis : {300, 1000},
     A_FUT_UNDERLYING_EXCHANGE : {"CBOT", "GLOBEX"}, A_FUT_TICKER : {"ZT"},
     B_FUT_UNDERLYING_EXCHANGE : {"CBOT"}, B_FUT_TICKER : {"ZN"},
     PairsLCM : {1}, idx : {0}]

CandidateTables ==
    {<<>>} \cup
    UNION {{[k \in 1..n |-> [rs[k] EXCEPT !.idx = k - 1]] :
               rs \in [1..n -> CandidateRows]} : n \in 1..2}

EndpointOrder(id, kind) ==
    [order_id |-> id,
     status |-> IF kind = "Filled" THEN "Filled"
                ELSE IF kind = "Inactive" THEN "Inactive" ELSE "Submitted",
     remainingQuantity |-> IF kind = "Filled" THEN 0 ELSE 1]

\* the endpoint's list, in the order of the ids, from what it holds of each
OrdersOf(kinds) ==
    LET present == SelectSeq([i \in 1..MaxOrderId |-> i],
                             LAMBDA i : kinds[i] # "absent")
    IN  [k \in DOMAIN present |-> EndpointOrder(present[k], kinds[present[k]])]

EndpointAnswers ==
    {[ok |-> FALSE, orders |-> <<>>]} \cup
    {[ok |-> TRUE, orders |-> OrdersOf(kinds)] :
        kinds \in {f \in [1..MaxOrderId -> {"absent", "Submitted", "Filled", "Inactive"}] :
                      \A i \in 2..MaxOrderId : f[i] \in {"absent", "Submitted"}}}

\* placed_orders_runtime.csv: the orders 1..p, each with its timestamp
PlacedFiles ==
    {[k \in 1..p |-> [order_id |-> k, timestamp |-> PlacedTimestamp(k)]] :
        p \in 0..MaxOrderId}

InitOrders ==
    /\ pc = "orderRequest"
    /\ updated_ORDERS \in CandidateTables
    /\ placed_csv \in PlacedFiles
    /\ endpoint \in EndpointAnswers
    /\ posted = <<>> /\ cancelled = <<>>
    /\ placed_orders_runtime = [columns |-> {}, rows |-> <<>>]
    /\ row = Null /\ limit = Null /\ qty = Null
    /\ hedges_df = <<>> /\ usts = <<>> /\ removed = {}
    /\ HEDGES = <<>> /\ HEDGES_Combos = <<>> /\ ORDERS = <<>>
    /\ val_call = Null /\ val_ret = Null
    /\ submitted = <<>> /\ first_run = <<>>
    /\ RefreshIdle /\ BucketIdle /\ SlotIdle

\* orderRequest, lines 246-354: nothing to do on an empty table; else the
\* loop over the rows, which posts and records at most the first row that
\* gets through
PlaceOrders ==
    /\ pc = "orderRequest"
    /\ IF updated_ORDERS = <<>>
       THEN /\ pc' = "done"
            /\ UNCHANGED <<posted, placed_orders_runtime, placed_csv, endpoint>>
       ELSE /\ \E k \in {PlacedIndex(updated_ORDERS, 1)} :
                IF k = 0
                THEN UNCHANGED <<posted, placed_orders_runtime, placed_csv, endpoint>>
                ELSE \E o \in {OrderOf(updated_ORDERS[k], NewOrderId)} :
                        /\ posted' = Append(posted, o)
                        /\ placed_orders_runtime' =
                              [columns |-> DOMAIN o \cup {"timestamp"},
                               rows |-> Append(placed_orders_runtime.rows,
                                               o @@ [timestamp |-> 0])]
                        /\ placed_csv' = placed_orders_runtime'.rows
                        /\ endpoint' =
                              [endpoint EXCEPT !.orders =
                                  Append(@, EndpointOrder(NewOrderId, "Submitted"))]
            /\ pc' = "check_and_cancel_orders"
    /\ UNCHANGED <<cancelled, updated_ORDERS, submitted, first_run>>
    /\ UNCHANGED <<sizingVars, ctdVars, pairVars, valVars>>
    /\ UNCHANGED <<refreshVars, bucketVars, slotVars>>

\* orderRequest, line 355: check_and_cancel_orders()
CheckAndCancelOrders ==
    /\ pc = "check_and_cancel_orders"
    /\ \E ids \in {CancelPlan(placed_csv, endpoint, placed_orders_runtime)} :
          /\ cancelled' = ids
          /\ placed_orders_runtime' = RuntimeAfterCancels(placed_orders_runtime, ids)
    /\ pc' = "done"
    /\ UNCHANGED <<placed_csv, endpoint, posted, updated_ORDERS, submitted, first_run>>
    /\ UNCHANGED <<sizingVars, ctdVars, pairVars, valVars>>
    /\ UNCHANGED <<refreshVars, bucketVars, slotVars>>

NextOrders == PlaceOrders \/ CheckAndCancelOrders

SpecOrders == InitOrders /\ [][NextOrders]_vars


(***************************************************************************)
(* Claims about order placement and cancellation (SpecOrders).             *)
(***************************************************************************)
\* the net basis of a candidate after the fees of both legs, scaled
ScaledNetAfterFees(r) ==
    LET f == calculate_total_fees(r.A_FUT_UNDERLYING_EXCHANGE, r.A_FUT_TICKER,
                                  r.B_FUT_UNDERLYING_EXCHANGE, r.B_FUT_TICKER)
    IN  (r.PairsAdjNetBasis - (f.A_fees + f.B_fees)) * PERCENT_PROFIT

FeesKnown(r) ==
    calculate_total_fees(r.A_FUT_UNDERLYING_EXCHANGE, r.A_FUT_TICKER,
                         r.B_FUT_UNDERLYING_EXCHANGE, r.B_FUT_TICKER).type = "dict"

\* the first row, in table order, with a positive scaled net basis; 0 if none
RECURSIVE FirstProfitable(_, _)
FirstProfitable(rows, k) ==
    IF k > Len(rows) THEN 0
    ELSE IF FeesKnown(rows[k]) /\ ScaledNetAfterFees(rows[k]) > 0 THEN k
    ELSE FirstProfitable(rows, k + 1)

\* C26 as stated: on a non-empty table orderRequest posts exactly the
\* order of the first row whose net basis after fees, scaled by
\* PERCENT_PROFIT, is positive, and records it in placed_orders_runtime;
\* it posts nothing for any other row.
C26_FirstProfitableRowPosted ==
    pc \in {"check_and_cancel_orders", "done"} /\ updated_ORDERS # <<>> =>
        LET k == FirstProfitable(updated_ORDERS, 1)
        IN  IF k = 0 THEN posted = <<>>
            ELSE /\ Len(posted) = 1
                 /\ posted[1].idx = updated_ORDERS[k].idx
                 /\ \E j \in DOMAIN placed_orders_runtime.rows :
                       placed_orders_runtime.rows[j].order_id = posted[1].order_id


\* what a call of check_and_cancel_orders found: the ids pending at the
\* endpoint, and the ids of the placed orders not reported filled
C27_PendingIds ==
    {endpoint.orders[k].order_id : k \in
        {j \in DOMAIN endpoint.orders :
            /\ endpoint.orders[j].status \in {"Submitted", "PreSubmitted"}
            /\ endpoint.orders[j].remainingQuantity # 0}}

C27_PlacedIds ==
    {placed_csv[k].order_id : k \in DOMAIN placed_csv} \
    {endpoint.orders[k].order_id : k \in
        {j \in DOMAIN endpoint.orders : endpoint.orders[j].remainingQuantity = 0}}

C27_MatchedIds == C27_PendingIds \cap C27_PlacedIds

C27_CancelledIds == {cancelled[k] : k \in DOMAIN cancelled}

\* a call of check_and_cancel_orders that fetched the orders has returned
C27_CallReturned == pc = "done" /\ updated_ORDERS # <<>> /\ endpoint.ok

C27_OldestMatchedCancelled ==
    /\ Cardinality(C27_CancelledIds \cap C27_MatchedIds) = 1
    /\ \E id \in C27_CancelledIds \cap C27_MatchedIds :
          \A other \in C27_MatchedIds : PlacedTimestamp(id) <= PlacedTimestamp(other)

C27_EveryPendingCancelled ==
    /\ C27_CancelledIds = C27_PendingIds
    /\ Len(cancelled) = Cardinality(C27_PendingIds)

\* C27 as stated: with a non-empty placed-orders record and more than 5
\* pending orders matching it exactly one matched order is cancelled, the
\* one placed first; with fewer than 5 pending orders nothing is
\* cancelled; with an empty placed-orders record every pending order is
\* cancelled.
C27_AsStated ==
    C27_CallReturned =>
        /\ C27_PlacedIds # {} /\ Cardinality(C27_MatchedIds) > 5
              => C27_OldestMatchedCancelled
        /\ Cardinality(C27_PendingIds) < 5 => cancelled = <<>>
        /\ C27_PlacedIds = {} => C27_EveryPendingCancelled

\* C27 amended: with a placed-orders record that is non-empty once the
\* orders reported filled are removed: more than 5 pending orders
\* matching it have exactly one of them cancelled, the one placed first,
\* and fewer than 5 pending orders have nothing cancelled; with a
\* placed-orders record that is empty every pending order is cancelled,
\* however few they are.
C27_MatchedCap ==
    C27_CallReturned =>
        /\ C27_PlacedIds # {} /\ Cardinality(C27_MatchedIds) > 5
              => C27_OldestMatchedCancelled
        /\ C27_PlacedIds # {} /\ Cardinality(C27_PendingIds) < 5
              => cancelled = <<>>
        /\ C27_PlacedIds = {} => C27_EveryPendingCancelled

C27_Witness ==
    /\ C27_CallReturned
    /\ C27_PlacedIds # {} /\ Cardinality(C27_MatchedIds) > 5
    /\ Len(cancelled) = 1 /\ cancelled[1] # 1

\* C28 as stated: with at least 5 orders pending and a pending order whose
\* id is absent from the non-empty placed-orders record, the call cancels
\* one such orphan, and does so before it cancels a matched order.
C28_OrphanCancelled ==
    /\ C27_CallReturned
    /\ C27_PlacedIds # {}
    /\ Cardinality(C27_PendingIds) >= 5
    /\ C27_PendingIds \ C27_PlacedIds # {}
    => /\ Cardinality(C27_CancelledIds \ C27_PlacedIds) = 1
       /\ cancelled # <<>> /\ cancelled[1] \notin C27_PlacedIds


(***************************************************************************)
(* SpecHedges: transform_futures_hedges(fut_local) (cf_ctd.py 69-122), as  *)
(* process_data calls it (line 340): fut_updated holds the rows of the     *)
(* FUTURES frame, HEDGES receives the result.  None is Null; NaN is        *)
(* NotANumber.                                                             *)
(***************************************************************************)
MaxContracts == 2
NotANumber == Null - 1

\* row['last_price'] as the snapshot gives it: text of a closed contract
\* ("C112.50"), text of a quote, or nothing
LastPriceCells == {"C112.50", "c112.50", "112.50"}

\* the *_price_decimal cells: None, NaN, 0 (no quote) or a price
FuturesRows ==
    [last_price : LastPriceCells,
     bid_price_decimal : {Null, NotANumber, 0, 110},
     ask_price_decimal : {Null, 0, 111},
     last_price_decimal : {Null, NotANumber, 109},
     volume : {"1.5K"}]

\* the frame: contract k is the row of conidex k
FuturesFrame(rs) ==
    [k \in DOMAIN rs |->
        [conidex |-> k, last_price |-> rs[k].last_price,
         bid_price_decimal |-> rs[k].bid_price_decimal,
         ask_price_decimal |-> rs[k].ask_price_decimal,
         last_price_decimal |-> rs[k].last_price_decimal,
         volume |-> rs[k].volume]]

\* str.lower().startswith("c") on the text of last_price
StartsWithC(text) == text \in {"C112.50", "c112.50"}

\* lines 93-95
bid_valid(r) ==
    r.bid_price_decimal # Null /\ r.bid_price_decimal # NotANumber
    /\ r.bid_price_decimal # 0
ask_valid(r) ==
    r.ask_price_decimal # Null /\ r.ask_price_decimal # NotANumber
    /\ r.ask_price_decimal # 0
last_valid(r) ==
    r.last_price_decimal # Null /\ r.last_price_decimal # NotANumber

\* modulate_volume.process_value on the text of a volume
process_value(text) == IF text = "1.5K" THEN 1500 ELSE NotANumber

\* row.copy() with price and src set, then the volume converted and the
\* columns prefixed (lines 98-120)
HedgeOf(r, price, src) ==
    [fut_conidex |-> r.conidex, fut_last_price |-> r.last_price,
     fut_bid_price_decimal |-> r.bid_price_decimal,
     fut_ask_price_decimal |-> r.ask_price_decimal,
     fut_last_price_decimal |-> r.last_price_decimal,
     fut_volume |-> process_value(r.volume),
     fut_price |-> price, fut_src |-> src]

\* the rows one contract contributes (lines 85-113)
RowsOfContract(r) ==
    IF StartsWithC(r.last_price) THEN <<>>
    ELSE IF bid_valid(r) /\ ask_valid(r)
         THEN <<HedgeOf(r, r.bid_price_decimal, "bid"),
                HedgeOf(r, r.ask_price_decimal, "ask")>>
    ELSE IF last_valid(r) THEN <<HedgeOf(r, r.last_price_decimal, "last")>>
    ELSE <<>>

RECURSIVE new_rows(_, _)
new_rows(futures_df, k) ==
    IF k > Len(futures_df) THEN <<>>
    ELSE RowsOfContract(futures_df[k]) \o new_rows(futures_df, k + 1)

\* round(df['volume'], 2) on a column of text (line 131): the installed
\* pandas either leaves the column alone or raises TypeError
RoundOfTextRaises == BOOLEAN

InitHedges ==
    /\ pc = "transform_futures_hedges"
    /\ \E n \in 1..MaxContracts : \E rs \in [1..n -> FuturesRows] :
          fut_updated = FuturesFrame(rs)
    /\ HEDGES = <<>> /\ HEDGES_Combos = <<>> /\ ORDERS = <<>>
    /\ row = Null /\ limit = Null /\ qty = Null
    /\ hedges_df = <<>> /\ usts = <<>> /\ removed = {}
    /\ val_call = Null /\ val_ret = Null
    /\ updated_ORDERS = <<>> /\ submitted = <<>> /\ first_run = <<>>
    /\ USTs = <<>> /\ FUTURES = <<>> /\ market_data = <<>> /\ ust_updated = <<>>
    /\ BucketIdle /\ SlotIdle /\ OrdersIdle

\* transform_futures_hedges: with no row collected the frame has no
\* column and modulate_volume raises KeyError on df['volume']
TransformFuturesHedges ==
    /\ pc = "transform_futures_hedges"
    /\ \E rows \in {new_rows(fut_updated, 1)} :
          IF rows = <<>>
          THEN pc' = "KeyError" /\ UNCHANGED HEDGES
          ELSE \E raises \in RoundOfTextRaises :
                  IF raises THEN pc' = "TypeError" /\ UNCHANGED HEDGES
                  ELSE pc' = "returned" /\ HEDGES' = rows
    /\ UNCHANGED <<HEDGES_Combos, ORDERS, sizingVars, ctdVars, valVars, tailVars>>
    /\ UNCHANGED <<refreshVars, bucketVars, slotVars, orderVars>>

\* process_data goes on with the table (line 341)
SaveHedges ==
    /\ pc = "returned"
    /\ pc' = "saved"
    /\ UNCHANGED <<pairVars, sizingVars, ctdVars, valVars, tailVars>>
    /\ UNCHANGED <<refreshVars, bucketVars, slotVars, orderVars>>

NextHedges == TransformFuturesHedges \/ SaveHedges

SpecHedges == InitHedges /\ [][NextHedges]_vars

\* the rows of the result that come from contract k
C29_RowsOf(k) == SelectSeq(HEDGES, LAMBDA h : h.fut_conidex = k)

C29_OneRow(k, price, src) ==
    /\ Len(C29_RowsOf(k)) = 1
    /\ C29_RowsOf(k)[1].fut_price = price /\ C29_RowsOf(k)[1].fut_src = src

C29_Valid(x) == x # Null /\ x # NotANumber /\ x # 0

C29_HasLast(x) == x # Null /\ x # NotANumber

\* C29 as stated: in the table transform_futures_hedges returns, a closed
\* contract has no row; a contract with valid bid and ask has exactly the
\* two rows 'bid' and 'ask'; a contract with only a valid bid or only a
\* valid ask has one row at that price with that side as src, with or
\* without a last price; a contract with none of the two and a last price
\* has one row 'last'; and no row has a null price.
C29_RowRules ==
    pc = "returned" =>
      /\ \A k \in DOMAIN fut_updated :
            LET r == fut_updated[k]
                bid == C29_Valid(r.bid_price_decimal)
                ask == C29_Valid(r.ask_price_decimal)
            IN  IF r.last_price \in {"C112.50", "c112.50"}
                THEN C29_RowsOf(k) = <<>>
                ELSE /\ bid /\ ask =>
                           /\ Len(C29_RowsOf(k)) = 2
                           /\ {<<h.fut_src, h.fut_price>> :
                                  h \in {C29_RowsOf(k)[j] : j \in 1..2}}
                              = {<<"bid", r.bid_price_decimal>>,
                                 <<"ask", r.ask_price_decimal>>}
                     /\ bid /\ ~ask => C29_OneRow(k, r.bid_price_decimal, "bid")
                     /\ ask /\ ~bid => C29_OneRow(k, r.ask_price_decimal, "ask")
                     /\ ~bid /\ ~ask /\ C29_HasLast(r.last_price_decimal)
                           => C29_OneRow(k, r.last_price_decimal, "last")
      /\ \A j \in DOMAIN HEDGES :
            HEDGES[j].fut_price # Null /\ HEDGES[j].fut_price # NotANumber


(***************************************************************************)
(* SpecBasis: the basis columns of one leg as the per-leg loop of          *)
(* calculate_quantities_with_sma computes them (KPIs2_Orders.py 76-100),   *)
(* on the futures price, conversion factor, dirty price and day count of   *)
(* the leg.  The columns hold numpy floats: a division by zero gives an    *)
(* infinity or NaN, never an exception, and the columns computed from it   *)
(* are NaN.                                                                *)
(***************************************************************************)
MaxLegPrice == 4
LegFutPrices == 0..MaxLegPrice
LegFactors == 1..3
LegDirtyPrices == (-1)..MaxLegPrice
LegDays == {-30, 0, 1, 73, 365, 400}

Infinity(sign) == <<sign, 0>>

\* the columns GrossBasis, ImpliedRepo, Carry, NetBasis of lines 81-100
LegBasisColumns(fut_price, cf, dirty_price, days) ==
    LET gb == sia_gross_basis(fut_price, cf, dirty_price)
    IN  IF dirty_price = 0 \/ days = 0
        THEN [GrossBasis |-> gb,
              ImpliedRepo |-> IF fut_price * cf - dirty_price = 0 THEN NaNFrac
                              ELSE IF (fut_price * cf - dirty_price < 0)
                                      = (dirty_price >= 0 /\ days >= 0)
                                   THEN Infinity(-1) ELSE Infinity(1),
              Carry |-> NaNFrac, NetBasis |-> NaNFrac]
        ELSE LET repo == sia_implied_repo(fut_price, dirty_price, cf, days)
                 carry == sia_carry(gb, repo, dirty_price, days)
             IN  [GrossBasis |-> gb, ImpliedRepo |-> repo,
                  Carry |-> carry, NetBasis |-> sia_net_basis(gb, carry)]

InitBasis ==
    /\ pc = "leg"
    /\ val_call \in [fut_price : LegFutPrices, cf : LegFactors,
                     dirty_price : LegDirtyPrices, days : LegDays]
    /\ val_ret = Null
    /\ row = Null /\ limit = Null /\ qty = Null
    /\ hedges_df = <<>> /\ usts = <<>> /\ removed = {}
    /\ HEDGES = <<>> /\ HEDGES_Combos = <<>> /\ ORDERS = <<>>
    /\ updated_ORDERS = <<>> /\ submitted = <<>> /\ first_run = <<>>
    /\ ServicesIdle

ComputeLegBasis ==
    /\ pc = "leg"
    /\ val_ret' = LegBasisColumns(val_call.fut_price, val_call.cf,
                                  val_call.dirty_price, val_call.days)
    /\ pc' = "leg_done"
    /\ UNCHANGED <<val_call, sizingVars, ctdVars, pairVars, tailVars, svcVars>>

NextBasis == ComputeLegBasis

SpecBasis == InitBasis /\ [][NextBasis]_vars

\* C30: for a leg with nonzero dirty price and nonzero day count, the
\* financing cost that sia_carry forms from the implied repo equals the
\* gross basis, so Carry is 0 and NetBasis equals GrossBasis.
C30_CarryIsZero ==
    pc = "leg_done" /\ val_call.dirty_price # 0 /\ val_call.days # 0 =>
        /\ val_ret.Carry = <<0, 1>>
        /\ val_ret.NetBasis = val_ret.GrossBasis
        /\ FrDiv(FrMul(FrMul(FrInt(val_call.dirty_price), val_ret.ImpliedRepo),
                       FrInt(val_call.days)), FrInt(365))
           = val_ret.GrossBasis

C30_Witness ==
    /\ pc = "leg_done"
    /\ val_call.dirty_price = 3 /\ val_call.days = 73
    /\ val_ret.GrossBasis = <<1, 1>> /\ val_ret.ImpliedRepo = <<5, 3>>
    /\ val_ret.Carry = <<0, 1>> /\ val_ret.NetBasis = <<1, 1>>

=============================================================================
